---- MODULE Spec2Model ----
(***************************************************************************)
(* Ground-side link layer of drone_gui: the packet codec, the coalescing   *)
(* command queue, the heartbeat scheduler and the application-side         *)
(* connect / disconnect entry points, modelled from src/src/protocol.rs,   *)
(* src/src/app.rs, src/src/persistence.rs, src/src/input.rs and the UI     *)
(* panels that call them.                                                  *)
(*                                                                         *)
(* f32 values are carried as their IEEE-754 bit patterns; the values used   *)
(* are non-negative floats, whose patterns lie below 2^31.  bytes_of dumps *)
(* them in host order, little-endian on the x86 and ARM hosts the program  *)
(* is built for.  ASCII lines are TLA+ strings.                            *)
(***************************************************************************)
EXTENDS Integers, Sequences, FiniteSets, TLC

VARIABLES
    queue,               \* CommandQueue.queue: VecDeque<(u16, CommandType)>
    serial_connected,    \* AppState.serial_connected
    uart_sender,         \* AppState.uart_sender: "Some" or "None"
    send_address,        \* AppState.send_address, the text of the address field
    config_requested,    \* DataBuffer.config_requested
    logs,                \* DataBuffer.logs, the log ring
    timer,               \* HeartbeatTimer.timer: elapsed milliseconds of the period
    controller_state,    \* ControllerState: the fields the heartbeat reads
    persistent_settings, \* PersistentSettings: the fields to_config_packet reads
    channel,             \* the mpsc channel behind uart_sender: Seq of UartCommand
    workers,             \* the worker threads spawned so far, in spawn order:
                         \* position in uart_loop, the receiver's backlog once
                         \* a newer channel exists, and the loop's line buffer
    port_written,        \* the lines written to the serial port since the last
                         \* connect attempt began
    init_pc,             \* position of the connect call inside init_lora_receiver
    init_step,           \* init_lora_receiver: commands acknowledged so far
    wait_buffer,         \* wait_for_response: its accumulation buffer
    wait_elapsed,        \* wait_for_response: reads done since the wait began
    buffer_data,         \* DataBuffer.data, the telemetry ring
    init_outcomes,       \* history: how each handshake step of the attempt ended
    envelopes,           \* history: the envelopes parse_rcv returned
    held,                \* the mutexes each thread holds: data_buffer, queue
    running,             \* what is left of the handler each thread is inside,
                         \* as its lock, unlock and blocking steps
    estop_pending,       \* history: EmergencyStop enqueued and no Reset enqueued since
    last                 \* history: the operation that ran last among enqueue,
                         \* dequeue, the scheduler, connect and disconnect:
                         \* its name and, for a call of the queue on its own,
                         \* the kind enqueued, whether an entry was replaced
                         \* and what dequeue returned; for the scheduler the
                         \* flag is the timer's just_finished()

vars == <<queue, serial_connected, uart_sender, send_address, config_requested,
          logs, timer, controller_state, persistent_settings, channel,
          workers, port_written, init_pc, init_step, wait_buffer, wait_elapsed,
          buffer_data, init_outcomes, envelopes, held, running, estop_pending,
          last>>

\* The state of the serial side: the handshake, the workers and what they parse
uart_vars == <<workers, port_written, init_pc, init_step, wait_buffer,
               wait_elapsed, buffer_data, init_outcomes, envelopes>>

\* Where each thread is with respect to the two mutexes
sync_vars == <<held, running>>

app_vars == <<serial_connected, uart_sender, send_address, config_requested,
              logs, timer, controller_state, persistent_settings, channel>>

-----------------------------------------------------------------------------
(* Bounds of the model *)

\* Sends the worker may have pending in the control channel.
MaxChannel == 1

\* Log entries the scheduler may append before the UI clears the log ring.
MaxLogs == 1

-----------------------------------------------------------------------------
(* PacketCodec: src/src/protocol.rs *)

CommandKinds ==
    {"Start", "Stop", "EmergencyStop", "StartManual", "SetThrottle", "SetPoint",
     "TunePID", "HeartBeat", "SetMotorThrottle", "Config", "Calibrate", "Reset"}

\* A plausible slip: PIDTunePacket without "packed", its axis byte padded to
\* the alignment of the floats.
FieldWidths_unpacked(kind) ==
    CASE kind = "SetThrottle"      -> <<4>>
      [] kind = "SetPoint"         -> <<4, 4, 4>>
      [] kind = "HeartBeat"        -> <<4, 4, 4, 4>>
      [] kind = "TunePID"          -> <<4, 4, 4, 4, 4, 4>>
      [] kind = "SetMotorThrottle" -> <<4, 4, 4, 4>>
      [] kind = "Config"           -> <<4, 4, 4, 4, 4, 4, 4, 4, 4, 4,
                                        4, 4, 4, 4, 4, 4, 4, 4, 4>>
      [] OTHER                     -> <<>>

\* Byte width of every field of the packed record a kind carries, in field order.
FieldWidths(kind) ==
    CASE kind = "SetThrottle"      -> <<4>>
      [] kind = "SetPoint"         -> <<4, 4, 4>>
      [] kind = "HeartBeat"        -> <<4, 4, 4, 4>>
      [] kind = "TunePID"          -> <<4, 4, 4, 4, 4, 1>>
      [] kind = "SetMotorThrottle" -> <<4, 4, 4, 4>>
      [] kind = "Config"           -> <<4, 4, 4, 4, 4, 4, 4, 4, 4, 4,
                                        4, 4, 4, 4, 4, 4, 4, 4, 4>>
      [] OTHER                     -> <<>>

\* A command value: its discriminant and the field values of its record.
Cmd(kind, fields) == [kind |-> kind, fields |-> fields]
Bare(kind) == Cmd(kind, <<>>)

discriminant(cmd) == cmd.kind

HexDigits == <<"0", "1", "2", "3", "4", "5", "6", "7",
               "8", "9", "A", "B", "C", "D", "E", "F">>

\* A plausible slip: the bytes are rendered with {:#04X}, each with its 0x.
ByteHex_prefixed(b) == "0x" \o HexDigits[(b \div 16) + 1] \o HexDigits[(b % 16) + 1]

\* format!("{:02X}", b)
ByteHex(b) == HexDigits[(b \div 16) + 1] \o HexDigits[(b % 16) + 1]

\* The n bytes of an n-byte little-endian value.
LeBytes(v, n) == [i \in 1..n |-> (v \div (256 ^ (i - 1))) % 256]

\* The {:02X} rendering of each byte of a run of bytes, concatenated
RECURSIVE hex_of_bytes(_)
hex_of_bytes(bytes) ==
    IF bytes = <<>> THEN ""
    ELSE ByteHex(Head(bytes)) \o hex_of_bytes(Tail(bytes))

\* bytemuck::bytes_of lays the fields of a #[repr(C, packed)] record out in
\* declaration order with no padding, so the hex dump of the record is the
\* hex dumps of its fields in order.
RECURSIVE hex_of_fields(_, _)
hex_of_fields(fields, widths) ==
    IF fields = <<>> THEN ""
    ELSE hex_of_bytes(LeBytes(Head(fields), Head(widths)))
             \o hex_of_fields(Tail(fields), Tail(widths))

\* ToHex::to_hex
to_hex(cmd) == hex_of_fields(cmd.fields, FieldWidths(cmd.kind))

\* CommandType::get_ascii, which CommandQueue::dequeue and heartbeat_system
\* call under the name to_ascii
get_ascii(cmd) ==
    CASE cmd.kind = "Start"            -> "FC:START"
      [] cmd.kind = "Stop"             -> "FC:STOP"
      [] cmd.kind = "EmergencyStop"    -> "ES"
      [] cmd.kind = "StartManual"      -> "FC:MANUAL"
      [] cmd.kind = "Calibrate"        -> "FC:CALIBRATE"
      [] cmd.kind = "Reset"            -> "FC:RESET"
      [] cmd.kind = "SetThrottle"      -> "ST:" \o to_hex(cmd)
      [] cmd.kind = "SetPoint"         -> "SP:" \o to_hex(cmd)
      [] cmd.kind = "HeartBeat"        -> "HB:" \o to_hex(cmd)
      [] cmd.kind = "TunePID"          -> "TP:" \o to_hex(cmd)
      [] cmd.kind = "SetMotorThrottle" -> "MB:" \o to_hex(cmd)
      [] cmd.kind = "Config"           -> "CF:" \o to_hex(cmd)

to_ascii(cmd) == get_ascii(cmd)

\* PersistentSettings::to_config_packet
to_config_packet(settings) ==
    settings.motor_throttles \o settings.pid_roll
        \o settings.pid_pitch \o settings.pid_yaw

\* PidParameters::default(): p 1.0, i 0.0, d 0.0, i_limit 10.0, pid_limit 100.0
PidParametersDefault == <<1065353216, 0, 0, 1092616192, 1120403456>>

\* PersistentSettings::default()
PersistentSettingsDefault ==
    [motor_throttles |-> <<0, 0, 0, 0>>,
     pid_roll  |-> PidParametersDefault,
     pid_pitch |-> PidParametersDefault,
     pid_yaw   |-> PidParametersDefault]

-----------------------------------------------------------------------------
(* str::parse::<u16> on the text of the address field.  A text is a        *)
(* sequence of characters; the result is the value or ParseErr.            *)

ParseErr == -1

DigitChars == <<"0", "1", "2", "3", "4", "5", "6", "7", "8", "9">>

IsDigit(c) == \E d \in 1..10 : DigitChars[d] = c

DigitValue(c) == (CHOOSE d \in 1..10 : DigitChars[d] = c) - 1

RECURSIVE parse_digits(_, _)
parse_digits(s, acc) ==
    IF s = <<>> THEN acc
    ELSE IF ~IsDigit(Head(s)) THEN ParseErr
    ELSE LET v == acc * 10 + DigitValue(Head(s))
         IN  IF v > 65535 THEN ParseErr ELSE parse_digits(Tail(s), v)

parse_u16(s) ==
    IF s = <<>> THEN ParseErr
    ELSE IF Head(s) = "+"
         THEN (IF Tail(s) = <<>> THEN ParseErr ELSE parse_digits(Tail(s), 0))
         ELSE parse_digits(s, 0)

-----------------------------------------------------------------------------
(* CommandQueue: src/src/app.rs *)

Entry(address, cmd) == [address |-> address, cmd |-> cmd]

\* queue.retain(|(_, existing)| discriminant(existing) != discriminant(command))
retain_other_kinds(q, cmd) ==
    SelectSeq(q, LAMBDA e : discriminant(e.cmd) # discriminant(cmd))

\* A plausible slip: the new command is appended without the retain.
enqueue_append_only(q, address, cmd) == Append(q, Entry(address, cmd))

\* A plausible slip: push_front in place of push_back.
enqueue_push_front(q, address, cmd) ==
    <<Entry(address, cmd)>> \o retain_other_kinds(q, cmd)

\* CommandQueue::enqueue: the queue after the call
enqueue(q, address, cmd) ==
    Append(retain_other_kinds(q, cmd), Entry(address, cmd))

NoReturn == [address |-> ParseErr, data |-> ""]

\* A plausible slip: pop_back in place of pop_front.
dequeue_pop_back(q) ==
    IF q = <<>> THEN [ret |-> NoReturn, queue |-> q]
    ELSE [ret   |-> [address |-> q[Len(q)].address, data |-> to_ascii(q[Len(q)].cmd)],
          queue |-> SubSeq(q, 1, Len(q) - 1)]

\* A plausible slip: the front entry is read and left in the queue.
dequeue_front_kept(q) ==
    IF q = <<>> THEN [ret |-> NoReturn, queue |-> q]
    ELSE [ret   |-> [address |-> Head(q).address, data |-> to_ascii(Head(q).cmd)],
          queue |-> q]

\* CommandQueue::dequeue: what the call returns (NoReturn for None) and the
\* queue after it
dequeue(q) ==
    IF q = <<>> THEN [ret |-> NoReturn, queue |-> q]
    ELSE [ret   |-> [address |-> Head(q).address, data |-> to_ascii(Head(q).cmd)],
          queue |-> Tail(q)]

\* The history of EmergencyStop / Reset requests after an enqueue of cmd.
estop_after(pending, cmd) ==
    IF cmd.kind = "EmergencyStop" THEN TRUE
    ELSE IF cmd.kind = "Reset" THEN FALSE
    ELSE pending

Last(op, kind, flag, ret) == [op |-> op, kind |-> kind, flag |-> flag, ret |-> ret]

HasKind(q, kind) == \E i \in 1..Len(q) : q[i].cmd.kind = kind

-----------------------------------------------------------------------------
(* Initial state: AppState::default(), CommandQueue::default(),            *)
(* ControllerState::default(), HeartbeatTimer::default(), DataBuffer::new  *)

Init ==
    /\ queue = <<>>
    /\ serial_connected = FALSE
    /\ uart_sender = "None"
    /\ send_address = <<"0">>
    /\ config_requested = FALSE
    /\ logs = <<>>
    /\ timer = 0
    /\ controller_state = [roll |-> 0, pitch |-> 0, yaw |-> 0, throttle |-> 0]
    /\ persistent_settings = PersistentSettingsDefault
    /\ channel = <<>>
    /\ workers = <<>>
    /\ port_written = <<>>
    /\ init_pc = "idle"
    /\ init_step = 0
    /\ wait_buffer = <<>>
    /\ wait_elapsed = 0
    /\ buffer_data = <<>>
    /\ init_outcomes = <<>>
    /\ envelopes = <<>>
    /\ held = [t \in {"app", "worker"} |-> {}]
    /\ running = [t \in {"app", "worker"} |-> <<>>]
    /\ estop_pending = FALSE
    /\ last = Last("init", "-", FALSE, NoReturn)

-----------------------------------------------------------------------------
(* The queue on its own: enqueue and dequeue called in any order.          *)

\* 0.2 and 0.8 as f32
ThrottleInputs == {1045220557, 1061997773}

QueueAddresses == {1, 2}

QueueCommands ==
    {Bare("EmergencyStop"), Bare("Reset"), Bare("Start")}
        \cup {Cmd("SetThrottle", <<v>>) : v \in ThrottleInputs}

QEnqueue(address, cmd) ==
    /\ UNCHANGED sync_vars
    /\ queue' = enqueue(queue, address, cmd)
    /\ estop_pending' = estop_after(estop_pending, cmd)
    /\ last' = Last("enqueue", cmd.kind, HasKind(queue, cmd.kind), NoReturn)
    /\ UNCHANGED app_vars
    /\ UNCHANGED uart_vars

QDequeue ==
    /\ UNCHANGED sync_vars
    /\ queue' = dequeue(queue).queue
    /\ last' = Last("dequeue", "-", queue # <<>>, dequeue(queue).ret)
    /\ UNCHANGED <<estop_pending, app_vars>>
    /\ UNCHANGED uart_vars

NextQueue ==
    \/ \E a \in QueueAddresses, c \in QueueCommands : QEnqueue(a, c)
    \/ QDequeue

SpecQueue == Init /\ [][NextQueue]_vars

-----------------------------------------------------------------------------
(* The application thread: connect / disconnect, the UI handlers that      *)
(* enqueue, and the heartbeat scheduler.                                   *)

\* HeartbeatTimer::default(): Timer::from_seconds(0.5, TimerMode::Repeating)
TimerDurationMs == 500

\* time.delta() of a frame, in milliseconds
FrameDeltasMs == {250, 500}

\* Texts the user leaves in the address field: "0" (the default) and "".
AddressTexts == {<<"0">>, <<>>}

\* The address controller_input_system sends the emergency stop to.
GamepadAddress == 2

\* Stick positions read from the gamepad: at rest, and throttle 0.5 with roll and
\* pitch at MAX_TILT_ANGLE (1 degree, 0.017453292 rad) and yaw 1.0.
StickInputs ==
    {[roll |-> 0, pitch |-> 0, yaw |-> 0, throttle |-> 0],
     [roll |-> 1016003125, pitch |-> 1016003125, yaw |-> 1065353216,
      throttle |-> 1056964608]}

\* Values dragged into the P gain of the selected axis: 1.0 and 2.0 as f32.
PidGainInputs == {1065353216, 1073741824}

\* The command buttons clicked: Reset (the emergency stop comes from the gamepad).
ButtonKinds == {"Reset"}

\* UartCommand
Send(address, data) == [type |-> "Send", address |-> address, data |-> data]
Disconnect == [type |-> "Disconnect", address |-> ParseErr, data |-> ""]

\* config.rs: MAX_LOG_MESSAGES
MAX_LOG_MESSAGES == 100

\* DataBuffer::push_log: the log ring after the call
push_log(ring, message) ==
    Append(IF Len(ring) >= MAX_LOG_MESSAGES THEN Tail(ring) ELSE ring, message)

\* Timer::tick on a repeating timer: the elapsed time kept and just_finished()
timer_tick(elapsed, delta) ==
    [elapsed       |-> (elapsed + delta) % TimerDurationMs,
     just_finished |-> elapsed + delta >= TimerDurationMs]

\* CommandType::HeartBeat(HeartBeatPacket { base_throttle, roll, pitch, yaw })
HeartBeat(control) ==
    Cmd("HeartBeat", <<control.throttle, control.roll, control.pitch, control.yaw>>)

\* CommandType::Config(persistent_settings.to_config_packet())
Config(settings) == Cmd("Config", to_config_packet(settings))

\* AppState::start_uart_thread; ok is the outcome of uart::start_uart_thread
\* (the port opened and the handshake was acknowledged).
start_uart_thread(ok) ==
    /\ UNCHANGED sync_vars
    /\ last' = Last("start_uart_thread", "-", ok, NoReturn)
    /\ IF serial_connected
       THEN UNCHANGED <<queue, serial_connected, uart_sender, channel>>
       ELSE IF ok
       THEN /\ uart_sender' = "Some"
            /\ serial_connected' = TRUE
            /\ channel' = <<>>
            /\ queue' = IF parse_u16(send_address) # ParseErr
                        THEN enqueue(queue, parse_u16(send_address),
                                     Config(persistent_settings))
                        ELSE queue
       ELSE /\ serial_connected' = FALSE
            /\ uart_sender' = "None"
            /\ UNCHANGED <<queue, channel>>
    /\ UNCHANGED <<send_address, config_requested, logs, timer, controller_state,
                   persistent_settings, estop_pending>>
    /\ UNCHANGED uart_vars

\* AppState::disconnect_uart
disconnect_uart ==
    /\ UNCHANGED sync_vars
    /\ last' = Last("disconnect_uart", "-", FALSE, NoReturn)
    /\ channel' = IF uart_sender = "Some" THEN Append(channel, Disconnect) ELSE channel
    /\ uart_sender' = "None"
    /\ serial_connected' = FALSE
    /\ UNCHANGED <<queue, send_address, config_requested, logs, timer,
                   controller_state, persistent_settings, estop_pending>>
    /\ UNCHANGED uart_vars

\* The address field of render_connection_panel is edited.
edit_send_address(text) ==
    /\ UNCHANGED sync_vars
    /\ send_address' = text
    /\ UNCHANGED <<queue, serial_connected, uart_sender, config_requested, logs,
                   timer, controller_state, persistent_settings, channel,
                   estop_pending, last>>
    /\ UNCHANGED uart_vars

\* render_commands_section / render_command_buttons: a command button is
\* clicked; the buttons are drawn only with a sender and a parsable address.
render_command_buttons(kind) ==
    /\ UNCHANGED sync_vars
    /\ uart_sender = "Some"
    /\ parse_u16(send_address) # ParseErr
    /\ queue' = enqueue(queue, parse_u16(send_address), Bare(kind))
    /\ estop_pending' = estop_after(estop_pending, Bare(kind))
    /\ last' = Last("render_command_buttons", "-", FALSE, NoReturn)
    /\ UNCHANGED app_vars
    /\ UNCHANGED uart_vars

\* controller_input_system: the sticks are copied into the control state and
\* the Start button enqueues an emergency stop.
controller_input_system(stick, start_pressed) ==
    /\ UNCHANGED sync_vars
    /\ controller_state' = stick
    /\ queue' = IF start_pressed
                THEN enqueue(queue, GamepadAddress, Bare("EmergencyStop"))
                ELSE queue
    /\ estop_pending' = (estop_pending \/ start_pressed)
    /\ last' = IF start_pressed
               THEN Last("controller_input_system", "-", FALSE, NoReturn)
               ELSE last
    /\ UNCHANGED <<serial_connected, uart_sender, send_address, config_requested,
                   logs, timer, persistent_settings, channel>>
    /\ UNCHANGED uart_vars

\* render_pid_parameters: the P gain of the selected axis (Roll by default)
\* is dragged to a new value.
render_pid_parameters(p) ==
    /\ UNCHANGED sync_vars
    /\ persistent_settings' =
           [persistent_settings EXCEPT !.pid_roll = [@ EXCEPT ![1] = p]]
    /\ UNCHANGED <<queue, serial_connected, uart_sender, send_address,
                   config_requested, logs, timer, controller_state, channel,
                   estop_pending, last>>
    /\ UNCHANGED uart_vars

\* The remote asks for the configuration: the side-channel flag is raised.
request_config ==
    /\ UNCHANGED sync_vars
    /\ ~config_requested
    /\ config_requested' = TRUE
    /\ UNCHANGED <<queue, serial_connected, uart_sender, send_address, logs, timer,
                   controller_state, persistent_settings, channel, estop_pending, last>>
    /\ UNCHANGED uart_vars

\* DataBuffer::clear_logs, from the log panel
clear_logs ==
    /\ UNCHANGED sync_vars
    /\ logs # <<>>
    /\ logs' = <<>>
    /\ UNCHANGED <<queue, serial_connected, uart_sender, send_address,
                   config_requested, timer, controller_state, persistent_settings,
                   channel, estop_pending, last>>
    /\ UNCHANGED uart_vars

\* uart_loop: rx.try_recv() takes the oldest request off the channel.
uart_loop_recv ==
    /\ UNCHANGED sync_vars
    /\ channel # <<>>
    /\ channel' = Tail(channel)
    /\ UNCHANGED <<queue, serial_connected, uart_sender, send_address,
                   config_requested, logs, timer, controller_state,
                   persistent_settings, estop_pending, last>>
    /\ UNCHANGED uart_vars

\* heartbeat_system, step 1: does the config request enqueue a Config command?
config_enqueued ==
    config_requested /\ parse_u16(send_address) # ParseErr

\* heartbeat_system, step 1: the queue after the config request was served
queue_after_config ==
    IF config_enqueued
    THEN enqueue(queue, parse_u16(send_address), Config(persistent_settings))
    ELSE queue

\* heartbeat_system, the send step: the timer just finished, there is a sender
\* and the address field parses
tick_sends(just_finished) ==
    /\ just_finished
    /\ uart_sender = "Some"
    /\ parse_u16(send_address) # ParseErr

\* A plausible slip: the system runs on without the serial_connected check.
heartbeat_returns_early_never == FALSE

\* heartbeat_system: the early return of a disconnected link
heartbeat_returns_early == ~serial_connected

\* heartbeat_system; delta is the frame's time.delta()
heartbeat_system(delta) ==
    /\ UNCHANGED sync_vars
    /\ IF heartbeat_returns_early
       THEN /\ last' = Last("heartbeat_system", "-", FALSE, NoReturn)
            /\ UNCHANGED <<queue, estop_pending, app_vars, uart_vars>>
       ELSE LET t    == timer_tick(timer, delta)
                q1   == queue_after_config
                d    == dequeue(q1)
                sent == IF ~tick_sends(t.just_finished) THEN NoReturn
                        ELSE IF d.ret # NoReturn THEN d.ret
                        ELSE [address |-> parse_u16(send_address),
                              data    |-> to_ascii(HeartBeat(controller_state))]
            IN  /\ config_enqueued => Len(logs) < MaxLogs
                /\ tick_sends(t.just_finished) => Len(channel) < MaxChannel
                /\ config_requested' = FALSE
                /\ logs' = IF config_enqueued
                           THEN push_log(logs, "Queued config response")
                           ELSE logs
                /\ timer' = t.elapsed
                /\ queue' = IF tick_sends(t.just_finished) THEN d.queue ELSE q1
                /\ channel' = IF tick_sends(t.just_finished)
                              THEN Append(channel, Send(sent.address, sent.data))
                              ELSE channel
                /\ last' = Last("heartbeat_system", "-", t.just_finished, NoReturn)
                /\ UNCHANGED <<serial_connected, uart_sender, send_address,
                               controller_state, persistent_settings, estop_pending,
                               uart_vars>>

Next ==
    \/ \E ok \in BOOLEAN : start_uart_thread(ok)
    \/ disconnect_uart
    \/ \E text \in AddressTexts : edit_send_address(text)
    \/ \E kind \in ButtonKinds : render_command_buttons(kind)
    \/ \E stick \in StickInputs, pressed \in BOOLEAN :
           controller_input_system(stick, pressed)
    \/ \E p \in PidGainInputs : render_pid_parameters(p)
    \/ request_config
    \/ clear_logs
    \/ uart_loop_recv
    \/ \E delta \in FrameDeltasMs : heartbeat_system(delta)

Spec == Init /\ [][Next]_vars

(* The connected link under fair scheduling: the scheduler system runs on  *)
(* every frame and the worker keeps polling its channel.                   *)

NextLive ==
    \/ start_uart_thread(TRUE)
    \/ \E kind \in ButtonKinds : render_command_buttons(kind)
    \/ \E stick \in StickInputs, pressed \in BOOLEAN :
           controller_input_system(stick, pressed)
    \/ uart_loop_recv
    \/ \E delta \in FrameDeltasMs : heartbeat_system(delta)

SpecLive ==
    /\ Init
    /\ [][NextLive]_vars
    /\ WF_vars(\E delta \in FrameDeltasMs : heartbeat_system(delta))
    /\ WF_vars(uart_loop_recv)

-----------------------------------------------------------------------------
(* Steps of the scheduler, for the properties below *)

\* heartbeat_system runs with the link connected and its timer just finished:
\* a heartbeat tick
HeartbeatTick(delta) ==
    /\ heartbeat_system(delta)
    /\ serial_connected
    /\ timer_tick(timer, delta).just_finished

\* The request handed to the worker by this step, when there is one
Transmitted == channel'[Len(channel')]

\* This step appends exactly one request to the channel.
TransmitsOne ==
    /\ Len(channel') = Len(channel) + 1
    /\ SubSeq(channel', 1, Len(channel)) = channel

\* A tick transmits a Heartbeat built from the control state.
HeartbeatSent ==
    \E delta \in FrameDeltasMs :
        /\ HeartbeatTick(delta)
        /\ channel' = Append(channel, Send(parse_u16(send_address),
                                           get_ascii(HeartBeat(controller_state))))

-----------------------------------------------------------------------------
(* Text received from and written to the serial port.  Text the worker     *)
(* reads is a sequence of one-character strings, so that it can be cut and  *)
(* searched; positions count from 1 and 0 stands for None.                  *)

\* char::is_whitespace, for the characters a serial line carries
Whitespace == {" ", "\t", "\r", "\n"}

\* str::starts_with
starts_with(s, p) == Len(s) >= Len(p) /\ SubSeq(s, 1, Len(p)) = p

\* str::ends_with
ends_with(s, p) ==
    Len(s) >= Len(p) /\ SubSeq(s, Len(s) - Len(p) + 1, Len(s)) = p

\* The positions at which p occurs in s
Occurrences(s, p) ==
    {i \in 1..(Len(s) - Len(p) + 1) : SubSeq(s, i, i + Len(p) - 1) = p}

\* str::contains
contains(s, p) == Occurrences(s, p) # {}

SetMin(S) == CHOOSE x \in S : \A y \in S : x <= y
SetMax(S) == CHOOSE x \in S : \A y \in S : x >= y

\* str::find and str::rfind
find(s, p) == IF contains(s, p) THEN SetMin(Occurrences(s, p)) ELSE 0
rfind(s, p) == IF contains(s, p) THEN SetMax(Occurrences(s, p)) ELSE 0

\* str::trim
trim(s) ==
    LET Solid == {i \in 1..Len(s) : s[i] \notin Whitespace}
    IN  IF Solid = {} THEN <<>> ELSE SubSeq(s, SetMin(Solid), SetMax(Solid))

\* str::split(sep).collect::<Vec<&str>>(): the pieces between the separators,
\* one more than there are separators
split(s, sep) ==
    LET Cuts   == {i \in 1..Len(s) : s[i] = sep}
        Cut(k) == IF k = 0 THEN 0
                  ELSE IF k = Cardinality(Cuts) + 1 THEN Len(s) + 1
                  ELSE CHOOSE p \in Cuts : Cardinality({q \in Cuts : q < p}) = k - 1
    IN  [k \in 1..(Cardinality(Cuts) + 1) |-> SubSeq(s, Cut(k - 1) + 1, Cut(k) - 1)]

\* The digits of a decimal number, most significant first, as an integer.
\* Texts of more than 9 digits lie outside the model's integers and count as
\* unparsable; no input of the model is that long.
RECURSIVE digits_value(_, _)
digits_value(s, acc) ==
    IF s = <<>> THEN acc
    ELSE digits_value(Tail(s), acc * 10 + DigitValue(Head(s)))

AllDigits(s) == s # <<>> /\ Len(s) <= 9 /\ \A i \in 1..Len(s) : IsDigit(s[i])

\* str::parse::<u32>(): digits with an optional leading "+"
parse_u32(s) ==
    LET body == IF s # <<>> /\ Head(s) = "+" THEN Tail(s) ELSE s
    IN  IF AllDigits(body) THEN [ok |-> TRUE, value |-> digits_value(body, 0)]
        ELSE [ok |-> FALSE, value |-> 0]

\* str::parse::<i32>(): digits with an optional leading "+" or "-"
parse_i32(s) ==
    LET signed == s # <<>> /\ Head(s) \in {"+", "-"}
        body   == IF signed THEN Tail(s) ELSE s
        sign   == IF signed /\ Head(s) = "-" THEN -1 ELSE 1
    IN  IF AllDigits(body) THEN [ok |-> TRUE, value |-> sign * digits_value(body, 0)]
        ELSE [ok |-> FALSE, value |-> 0]

\* str::parse::<f32>() on the decimal notation the telemetry line uses,
\* [sign]whole[.fraction]; the value is kept in units of 10^-(fraction digits)
\* as the pair of the scaled integer and the number of fraction digits.
parse_f32(s) ==
    LET signed == s # <<>> /\ Head(s) \in {"+", "-"}
        body   == IF signed THEN Tail(s) ELSE s
        sign   == IF signed /\ Head(s) = "-" THEN -1 ELSE 1
        dot    == find(body, <<".">>)
        whole  == IF dot = 0 THEN body ELSE SubSeq(body, 1, dot - 1)
        frac   == IF dot = 0 THEN <<>> ELSE SubSeq(body, dot + 1, Len(body))
        mant   == whole \o frac
    IN  IF AllDigits(mant) /\ ~contains(frac, <<".">>)
        THEN [ok |-> TRUE, value |-> <<sign * digits_value(mant, 0), Len(frac)>>]
        ELSE [ok |-> FALSE, value |-> <<0, 0>>]

-----------------------------------------------------------------------------
(* The serial side: src/src/uart.rs and src/src/config.rs *)

\* config.rs
LORA_ADDRESS == 1
LORA_NETWORK_ID == 6
LORA_BAND == 915000000
LORA_SPREADING_FACTOR == 9
LORA_BANDWIDTH == 7
LORA_CODING_RATE == 1
LORA_PREAMBLE == 4

\* init_lora_receiver: the commands, in the order of the vec
InitCommands ==
    <<"AT",
      "AT+ADDRESS=" \o ToString(LORA_ADDRESS),
      "AT+NETWORKID=" \o ToString(LORA_NETWORK_ID),
      "AT+BAND=" \o ToString(LORA_BAND),
      "AT+PARAMETER=" \o ToString(LORA_SPREADING_FACTOR) \o ","
          \o ToString(LORA_BANDWIDTH) \o "," \o ToString(LORA_CODING_RATE)
          \o "," \o ToString(LORA_PREAMBLE)>>

\* format!("{cmd}\r\n"): the line written for a command
CommandLine(cmd) == cmd \o "\r\n"

\* The reads wait_for_response can fit in before its max_wait of 2 s is over
WaitReads == 2

\* Connects that may succeed in one run of the model
MaxWorkers == 2

\* Results of port.read
ReadData(bytes) == [kind |-> "Data", bytes |-> bytes]
ReadEmpty == [kind |-> "Empty", bytes |-> <<>>]
ReadTimedOut == [kind |-> "TimedOut", bytes |-> <<>>]
ReadError == [kind |-> "Error", bytes |-> <<>>]

CRLF == <<"\r", "\n">>
OkToken == <<"+", "O", "K">>
ErrPrefix == <<"+", "E", "R", "R", "=">>

\* A plausible slip: the clock is restarted whenever bytes arrive, the wait
\* only gives up after max_wait of silence.
elapsed_after_reset_on_data(elapsed, read) ==
    IF read.kind = "Data" THEN 0 ELSE elapsed + 1

\* wait_for_response: timeout.elapsed() after one more turn of the loop; the
\* Instant is taken once, before the loop, and every read takes its time
elapsed_after(elapsed, read) == elapsed + 1

\* wait_for_response, one turn of its loop after the timeout check: the buffer
\* it keeps and whether it goes on ("continue") or returns true ("ok") or
\* false ("err" for a module error, "read_error" for a failed read)
wait_for_response(buffer, read, expected) ==
    IF read.kind = "Error" THEN [buffer |-> buffer, outcome |-> "read_error"]
    ELSE IF read.kind # "Data" \/ read.bytes = <<>>
    THEN [buffer |-> buffer, outcome |-> "continue"]
    ELSE LET pushed == buffer \o read.bytes
             line   == trim(pushed)
         IN  IF ~ends_with(pushed, CRLF)
             THEN [buffer |-> pushed, outcome |-> "continue"]
             ELSE IF starts_with(line, ErrPrefix)
             THEN [buffer |-> pushed, outcome |-> "err"]
             ELSE IF contains(line, expected)
             THEN [buffer |-> pushed, outcome |-> "ok"]
             ELSE [buffer |-> <<>>, outcome |-> "continue"]

\* A worker thread as uart_loop starts it: at the top of the loop, with an
\* empty line buffer.  rx keeps what the receiver still holds once the
\* application has replaced the sender; until then the channel is `channel`.
NewWorker ==
    [pc |-> "recv", rx |-> <<>>, buffer |-> <<>>, wait_buffer |-> <<>>,
     wait_elapsed |-> 0]

\* mpsc::channel() and thread::spawn in uart::start_uart_thread: the worker
\* list after the spawn; the channel of the worker before goes with it
spawn_worker(ws, ch) ==
    IF ws = <<>> THEN <<NewWorker>>
    ELSE Append([ws EXCEPT ![Len(ws)].rx = ch], NewWorker)

\* A plausible slip: the channel and the worker are created before the
\* handshake has been checked.
workers_after_connect_unchecked(ws, ch, ok) == spawn_worker(ws, ch)

\* uart::start_uart_thread: the workers after a connect attempt that ended ok or not
workers_after_connect(ws, ch, ok) == IF ok THEN spawn_worker(ws, ch) ELSE ws

\* A plausible slip: init_lora_receiver goes on to the next command whatever
\* the wait returned.
init_step_passed_always(outcome) == TRUE

\* init_lora_receiver: the step is followed by the next command
init_step_passed(outcome) == outcome = "ok"

\* A plausible slip: the connect call returns without queueing the Config
\* command.
connect_returns_without_config(ok) ==
    /\ init_pc' = "idle"
    /\ workers' = workers_after_connect(workers, channel, ok)
    /\ last' = Last("start_uart_thread", "-", ok, NoReturn)
    /\ IF ok
       THEN /\ uart_sender' = "Some"
            /\ serial_connected' = TRUE
            /\ channel' = <<>>
            /\ UNCHANGED queue
       ELSE /\ serial_connected' = FALSE
            /\ uart_sender' = "None"
            /\ UNCHANGED <<queue, channel>>

\* The arms of AppState::start_uart_thread once uart::start_uart_thread has
\* returned, and the end of the connect call
connect_returns(ok) ==
    /\ init_pc' = "idle"
    /\ workers' = workers_after_connect(workers, channel, ok)
    /\ last' = Last("start_uart_thread", "-", ok, NoReturn)
    /\ IF ok
       THEN /\ uart_sender' = "Some"
            /\ serial_connected' = TRUE
            /\ channel' = <<>>
            /\ queue' = IF parse_u16(send_address) # ParseErr
                        THEN enqueue(queue, parse_u16(send_address),
                                     Config(persistent_settings))
                        ELSE queue
       ELSE /\ serial_connected' = FALSE
            /\ uart_sender' = "None"
            /\ UNCHANGED <<queue, channel>>

\* A plausible slip: the connect call goes on to open the port without looking
\* at serial_connected.
connect_open_unchecked(open_ok) ==
    /\ UNCHANGED sync_vars
    /\ init_pc = "idle"
    /\ Len(workers) < MaxWorkers
    /\ IF open_ok
       THEN /\ init_pc' = "write"
            /\ init_step' = 0
            /\ init_outcomes' = <<>>
            /\ port_written' = <<>>
            /\ UNCHANGED <<queue, serial_connected, uart_sender, channel, workers,
                           last>>
       ELSE /\ connect_returns(FALSE)
            /\ init_outcomes' = <<>>
            /\ port_written' = <<>>
            /\ UNCHANGED init_step
    /\ UNCHANGED <<send_address, config_requested, logs, timer, controller_state,
                   persistent_settings, wait_buffer, wait_elapsed, buffer_data,
                   envelopes, estop_pending>>

\* The connect button: AppState::start_uart_thread up to the opening of the
\* port in uart::start_uart_thread; open_ok is the outcome of open().
connect_open(open_ok) ==
    /\ UNCHANGED sync_vars
    /\ init_pc = "idle"
    /\ Len(workers) < MaxWorkers
    /\ IF serial_connected
       THEN /\ last' = Last("start_uart_thread", "-", TRUE, NoReturn)
            /\ UNCHANGED <<queue, serial_connected, uart_sender, channel, workers,
                           port_written, init_pc, init_step, init_outcomes>>
       ELSE IF open_ok
       THEN /\ init_pc' = "write"
            /\ init_step' = 0
            /\ init_outcomes' = <<>>
            /\ port_written' = <<>>
            /\ UNCHANGED <<queue, serial_connected, uart_sender, channel, workers,
                           last>>
       ELSE /\ connect_returns(FALSE)
            /\ init_outcomes' = <<>>
            /\ port_written' = <<>>
            /\ UNCHANGED init_step
    /\ UNCHANGED <<send_address, config_requested, logs, timer, controller_state,
                   persistent_settings, wait_buffer, wait_elapsed, buffer_data,
                   envelopes, estop_pending>>

\* init_lora_receiver: the write of the next command
init_write(write_ok) ==
    /\ UNCHANGED sync_vars
    /\ init_pc = "write"
    /\ IF write_ok
       THEN /\ port_written' =
                   Append(port_written, CommandLine(InitCommands[init_step + 1]))
            /\ init_pc' = "wait"
            /\ wait_buffer' = <<>>
            /\ wait_elapsed' = 0
            /\ UNCHANGED <<queue, serial_connected, uart_sender, channel, workers,
                           init_outcomes, last>>
       ELSE /\ connect_returns(FALSE)
            /\ init_outcomes' = Append(init_outcomes, "write_error")
            /\ UNCHANGED <<port_written, wait_buffer, wait_elapsed>>
    /\ UNCHANGED <<send_address, config_requested, logs, timer, controller_state,
                   persistent_settings, init_step, buffer_data, envelopes,
                   estop_pending>>

\* init_lora_receiver inside wait_for_response(port, "+OK"): one turn of the
\* wait loop, and what the initializer and the connect call do when the wait
\* returns
init_wait(read) ==
    /\ UNCHANGED sync_vars
    /\ init_pc = "wait"
    /\ LET w       == wait_for_response(wait_buffer, read, OkToken)
           outcome == IF wait_elapsed >= WaitReads THEN "timeout" ELSE w.outcome
       IN  IF outcome = "continue"
           THEN /\ wait_buffer' = w.buffer
                /\ wait_elapsed' = elapsed_after(wait_elapsed, read)
                /\ UNCHANGED <<queue, serial_connected, uart_sender, channel,
                               workers, init_pc, init_step, init_outcomes, last>>
           ELSE /\ init_outcomes' = Append(init_outcomes, outcome)
                /\ wait_buffer' = <<>>
                /\ wait_elapsed' = 0
                /\ IF ~init_step_passed(outcome)
                   THEN /\ connect_returns(FALSE)
                        /\ UNCHANGED init_step
                   ELSE IF init_step + 1 = Len(InitCommands)
                   THEN /\ connect_returns(TRUE)
                        /\ init_step' = init_step + 1
                   ELSE /\ init_pc' = "write"
                        /\ init_step' = init_step + 1
                        /\ UNCHANGED <<queue, serial_connected, uart_sender,
                                       channel, workers, last>>
    /\ UNCHANGED <<send_address, config_requested, logs, timer, controller_state,
                   persistent_settings, port_written, buffer_data, envelopes,
                   estop_pending>>

\* What the module answers during the handshake, as the reads deliver it

OkLine ==
    <<"+", "O", "K", "\r", "\n">>

ErrLine ==
    <<"+", "E", "R", "R", "=", "1", "\r", "\n">>

ReadyLine ==
    <<"+", "R", "E", "A", "D", "Y", "\r", "\n">>

\* Two lines delivered by one read
ReadyThenErr ==
    <<"+", "R", "E", "A", "D", "Y", "\r", "\n", "+", "E", "R", "R", "=", "2",
      "\r", "\n">>

\* An acknowledgement cut in two by the read
OkHead ==
    <<"+", "O">>

OkTail ==
    <<"K", "\r", "\n">>


InitReads ==
    {ReadData(OkLine), ReadData(ErrLine), ReadData(ReadyLine),
     ReadData(ReadyThenErr), ReadData(OkHead), ReadData(OkTail),
     ReadEmpty, ReadTimedOut, ReadError}

(* The connect call on its own: the port is opened, the handshake runs     *)
(* against whatever the module answers, and the link is disconnected again. *)

NextInit ==
    \/ \E open_ok \in BOOLEAN : connect_open(open_ok)
    \/ \E write_ok \in BOOLEAN : init_write(write_ok)
    \/ \E read \in InitReads : init_wait(read)
    \/ (init_pc = "idle" /\ disconnect_uart)

SpecInit == Init /\ [][NextInit]_vars

-----------------------------------------------------------------------------
(* The inbound side: src/src/parser.rs, DataBuffer of src/src/telemetry.rs  *)
(* and process_bytes / process_line of src/src/uart.rs                      *)

\* config.rs: MAX_POINTS
MAX_POINTS == 500

RcvMarker ==
    <<"+", "R", "C", "V">>
RcvPrefix ==
    <<"+", "R", "C", "V", "=">>
TelemTag ==
    <<"T", "E", "L", "E", "M">>
LogPrefix ==
    <<"L", "O", "G", ":">>

\* Option<ReceivedMessage>, or the panic of an index past the end of parts
RcvNone == [kind |-> "None", message |-> <<>>, from |-> 0, length |-> 0,
            rssi |-> 0, snr |-> 0]
RcvPanic == [kind |-> "Panic", message |-> <<>>, from |-> 0, length |-> 0,
             rssi |-> 0, snr |-> 0]
RcvSome(from, length, message, rssi, snr) ==
    [kind |-> "Some", message |-> message, from |-> from, length |-> length,
     rssi |-> rssi, snr |-> snr]

\* parse_rcv: the fields are taken in order, parts[k] panics when the line has
\* no such field, and a field that does not parse returns None
parse_rcv(line) ==
    IF ~starts_with(line, RcvPrefix) THEN RcvNone
    ELSE LET parts == split(SubSeq(line, Len(RcvPrefix) + 1, Len(line)), ",")
             n     == Len(parts)
         IN  IF ~parse_u32(parts[1]).ok THEN RcvNone
             ELSE IF n < 2 THEN RcvPanic
             ELSE IF ~parse_u32(parts[2]).ok THEN RcvNone
             ELSE IF n < 3 THEN RcvPanic
             ELSE IF n < 4 THEN RcvPanic
             ELSE IF ~parse_i32(parts[4]).ok THEN RcvNone
             ELSE IF n < 5 THEN RcvPanic
             ELSE IF ~parse_i32(parts[5]).ok THEN RcvNone
             ELSE RcvSome(parse_u32(parts[1]).value, parse_u32(parts[2]).value,
                          parts[3], parse_i32(parts[4]).value,
                          parse_i32(parts[5]).value)

\* The fields parse_telemetry reads after the tag: roll .. battery_voltage
TelemetryFields == 14

\* telemetry.rs: TelemetryPacket, thirteen packed four-byte fields
TelemetryPacketSize == 52

\* A plausible slip: a field that does not parse is filled with zero.
parse_telemetry_default_filled(message) ==
    LET parts == split(message, ":")
    IN  IF parts[1] = <<"T">> \/ parts[1] = TelemTag
        THEN [ok |-> TRUE,
              fields |-> [k \in 1..TelemetryFields |->
                            IF k + 1 <= Len(parts) /\ parse_f32(parts[k + 1]).ok
                            THEN parse_f32(parts[k + 1]).value ELSE <<0, 0>>]]
        ELSE [ok |-> FALSE, fields |-> <<>>]

\* parse_telemetry: Some(TelemetryData) with the values of the fields, or None
parse_telemetry(message) ==
    LET parts == split(message, ":")
    IN  IF /\ Len(parts) >= TelemetryFields + 1
           /\ parts[1] = TelemTag
           /\ \A k \in 2..(TelemetryFields + 1) : parse_f32(parts[k]).ok
        THEN [ok |-> TRUE,
              fields |-> [k \in 1..TelemetryFields |-> parse_f32(parts[k + 1]).value]]
        ELSE [ok |-> FALSE, fields |-> <<>>]

\* parse_log
parse_log(message) ==
    IF starts_with(message, LogPrefix)
    THEN [ok |-> TRUE, text |-> SubSeq(message, Len(LogPrefix) + 1, Len(message))]
    ELSE [ok |-> FALSE, text |-> <<>>]

\* A plausible slip: pop_back in place of pop_front, the newest record of a
\* full ring is evicted.
push_pop_back(ring, telem) ==
    Append(IF Len(ring) >= MAX_POINTS THEN SubSeq(ring, 1, Len(ring) - 1) ELSE ring,
           telem)

\* DataBuffer::push: the telemetry ring after the call
push(ring, telem) ==
    Append(IF Len(ring) >= MAX_POINTS THEN Tail(ring) ELSE ring, telem)

\* What the worker's read path works on: its line buffer, the shared
\* DataBuffer (data and logs), the envelopes parsed so far, and whether the
\* thread has panicked
ReadState(buffer, ring, log_ring, parsed) ==
    [buffer |-> buffer, data |-> ring, logs |-> log_ring, envelopes |-> parsed,
     panicked |-> FALSE]

\* process_line
process_line(line, st) ==
    LET rcv == parse_rcv(line)
    IN  IF rcv.kind = "None" THEN st
        ELSE IF rcv.kind = "Panic" THEN [st EXCEPT !.panicked = TRUE]
        ELSE LET seen == [st EXCEPT !.envelopes = Append(@, rcv)]
             IN  IF parse_telemetry(rcv.message).ok
                 THEN [seen EXCEPT !.data = push(@, parse_telemetry(rcv.message).fields)]
                 ELSE IF parse_log(rcv.message).ok
                 THEN [seen EXCEPT !.logs = push_log(@, parse_log(rcv.message).text)]
                 ELSE seen

\* process_bytes: while let Some(pos) = buffer.find('\n') { drain, process_line }
RECURSIVE drain_lines(_)
drain_lines(st) ==
    LET pos == find(st.buffer, <<"\n">>)
    IN  IF pos = 0 \/ st.panicked THEN st
        ELSE drain_lines(
                 process_line(trim(SubSeq(st.buffer, 1, pos)),
                              [st EXCEPT !.buffer = SubSeq(@, pos + 1, Len(@))]))

\* A plausible slip: find in place of rfind, the buffer is cut at the first
\* "+RCV".
keep_from_first_rcv(buffer) ==
    IF find(buffer, RcvMarker) > 1
    THEN SubSeq(buffer, find(buffer, RcvMarker), Len(buffer))
    ELSE buffer

\* process_bytes: push_str, what is kept from the last "+RCV" on
keep_from_last_rcv(buffer) ==
    IF rfind(buffer, RcvMarker) > 1
    THEN SubSeq(buffer, rfind(buffer, RcvMarker), Len(buffer))
    ELSE buffer

\* A byte that is no UTF-8 (0xFF), among the one-character strings of a read
InvalidByte == "0xFF"

\* std::str::from_utf8(bytes) is Ok
valid_utf8(bytes) == \A k \in 1..Len(bytes) : bytes[k] # InvalidByte

\* process_bytes: bytes that are no UTF-8 are left alone, else push_str, the
\* cut at the last "+RCV" and the lines drained
process_bytes(st, bytes) ==
    IF ~valid_utf8(bytes) THEN st
    ELSE drain_lines([st EXCEPT !.buffer = keep_from_last_rcv(@ \o bytes)])

-----------------------------------------------------------------------------
(* The worker thread: uart_loop, send_lora_data and handle_serial_read *)

\* Telemetry records the ring may hold before the UI clears it
MaxData == 1

\* Envelopes the worker may parse in one run of the model
MaxEnvelopes == 2

\* Lines the worker may write to the port on one link, the handshake aside
MaxWrites == 2

\* send_lora_data: the maximum payload length
MaxPayload == 240

\* The receiver of worker i: the channel while its sender is the newest one
Rx(i) == IF i = Len(workers) THEN channel ELSE workers[i].rx

\* Worker i is inside uart_loop and owns its port
InLoop(i) == workers[i].pc \in {"recv", "wait", "read"}

\* format!("AT+SEND={},{},{}", address, payload_length, data) and "{}\r\n"
SendLine(address, payload) ==
    CommandLine("AT+SEND=" \o ToString(address) \o "," \o ToString(Len(payload))
                    \o "," \o payload)

\* A plausible slip: a payload of exactly the maximum length is rejected too.
payload_too_long_inclusive(payload) == Len(payload) >= MaxPayload

\* send_lora_data: the length check
payload_too_long(payload) == Len(payload) > MaxPayload

\* send_lora_data up to its wait: the lines it writes and whether it goes on to
\* wait for +OK; write_ok is the outcome of write_all
send_lora_data(address, payload, write_ok) ==
    IF payload_too_long(payload) \/ ~write_ok
    THEN [written |-> <<>>, waits |-> FALSE]
    ELSE [written |-> <<SendLine(address, payload)>>, waits |-> TRUE]

\* rx.try_recv(): the request the worker takes, the oldest one
next_request(rx) == Head(rx)

\* uart_loop, the top of an iteration: rx.try_recv(), the exit on Disconnect
\* and handle_uart_command up to the wait of send_lora_data
uart_loop_try_recv(i, write_ok) ==
    /\ UNCHANGED sync_vars
    /\ i \in 1..Len(workers)
    /\ workers[i].pc = "recv"
    /\ IF Rx(i) = <<>>
       THEN /\ workers' = [workers EXCEPT ![i].pc = "read"]
            /\ UNCHANGED <<channel, port_written>>
       ELSE LET cmd  == next_request(Rx(i))
                sent == send_lora_data(cmd.address, cmd.data, write_ok)
                pc   == IF cmd = Disconnect THEN "exited"
                        ELSE IF sent.waits THEN "wait" ELSE "read"
            IN  /\ IF i = Len(workers)
                   THEN /\ channel' = Tail(channel)
                        /\ workers' = [workers EXCEPT ![i].pc = pc]
                   ELSE /\ workers' = [workers EXCEPT ![i].pc = pc,
                                                      ![i].rx = Tail(@)]
                        /\ UNCHANGED channel
                /\ port_written' = IF cmd = Disconnect THEN port_written
                                   ELSE port_written \o sent.written
    /\ UNCHANGED <<queue, serial_connected, uart_sender, send_address,
                   config_requested, logs, timer, controller_state,
                   persistent_settings, init_pc, init_step, wait_buffer,
                   wait_elapsed, buffer_data, init_outcomes, envelopes,
                   estop_pending, last>>

\* A plausible slip: the bytes a wait reads are handed to the frame parser too.
send_wait_feeds_parser(i, read) ==
    /\ UNCHANGED sync_vars
    /\ i \in 1..Len(workers)
    /\ workers[i].pc = "wait"
    /\ LET w       == wait_for_response(workers[i].wait_buffer, read, OkToken)
           outcome == IF workers[i].wait_elapsed >= WaitReads THEN "timeout"
                      ELSE w.outcome
           st0     == ReadState(workers[i].buffer, buffer_data, logs, envelopes)
           st      == IF read.kind \in {"Data", "Empty"}
                      THEN process_bytes(st0, read.bytes)
                      ELSE st0
       IN  /\ Len(st.data) <= MaxData
           /\ Len(st.logs) <= MaxLogs
           /\ Len(st.envelopes) <= MaxEnvelopes
           /\ workers' =
               IF outcome = "continue"
               THEN [workers EXCEPT ![i].wait_buffer = w.buffer,
                                    ![i].wait_elapsed = elapsed_after(@, read),
                                    ![i].buffer = st.buffer]
               ELSE [workers EXCEPT ![i].wait_buffer = <<>>,
                                    ![i].wait_elapsed = 0,
                                    ![i].buffer = st.buffer,
                                    ![i].pc = "read"]
           /\ buffer_data' = st.data
           /\ logs' = st.logs
           /\ envelopes' = st.envelopes
    /\ UNCHANGED <<queue, serial_connected, uart_sender, send_address,
                   config_requested, timer, controller_state,
                   persistent_settings, channel, port_written, init_pc, init_step,
                   wait_buffer, wait_elapsed, init_outcomes, estop_pending, last>>

\* send_lora_data inside wait_for_response(port, "+OK"): one turn of the wait
\* loop; what the wait returns is only logged
send_wait(i, read) ==
    /\ UNCHANGED sync_vars
    /\ i \in 1..Len(workers)
    /\ workers[i].pc = "wait"
    /\ LET w       == wait_for_response(workers[i].wait_buffer, read, OkToken)
           outcome == IF workers[i].wait_elapsed >= WaitReads THEN "timeout"
                      ELSE w.outcome
       IN  workers' =
               IF outcome = "continue"
               THEN [workers EXCEPT ![i].wait_buffer = w.buffer,
                                    ![i].wait_elapsed = elapsed_after(@, read)]
               ELSE [workers EXCEPT ![i].wait_buffer = <<>>,
                                    ![i].wait_elapsed = 0,
                                    ![i].pc = "read"]
    /\ UNCHANGED <<queue, serial_connected, uart_sender, send_address,
                   config_requested, logs, timer, controller_state,
                   persistent_settings, channel, port_written, init_pc, init_step,
                   wait_buffer, wait_elapsed, buffer_data, init_outcomes,
                   envelopes, estop_pending, last>>

\* handle_serial_read: one port.read and process_bytes on what it returned;
\* a panic in the read path ends the thread
handle_serial_read(i, read) ==
    /\ UNCHANGED sync_vars
    /\ i \in 1..Len(workers)
    /\ workers[i].pc = "read"
    /\ LET st0 == ReadState(workers[i].buffer, buffer_data, logs, envelopes)
           st  == IF read.kind \in {"Data", "Empty"}
                  THEN process_bytes(st0, read.bytes)
                  ELSE st0
       IN  /\ Len(st.data) <= MaxData
           /\ Len(st.logs) <= MaxLogs
           /\ Len(st.envelopes) <= MaxEnvelopes
           /\ workers' = [workers EXCEPT
                            ![i].buffer = st.buffer,
                            ![i].pc = IF st.panicked THEN "panicked" ELSE "recv"]
           /\ buffer_data' = st.data
           /\ logs' = st.logs
           /\ envelopes' = st.envelopes
    /\ UNCHANGED <<queue, serial_connected, uart_sender, send_address,
                   config_requested, timer, controller_state, persistent_settings,
                   channel, port_written, init_pc, init_step, wait_buffer,
                   wait_elapsed, init_outcomes, estop_pending, last>>

\* sender.send(UartCommand::Send { address, data }): the application hands a
\* request to the worker
sender_send(address, payload) ==
    /\ UNCHANGED sync_vars
    /\ uart_sender = "Some"
    /\ Len(channel) < MaxChannel
    /\ Len(port_written) < Len(InitCommands) + MaxWrites
    /\ channel' = Append(channel, Send(address, payload))
    /\ UNCHANGED <<queue, serial_connected, uart_sender, send_address,
                   config_requested, logs, timer, controller_state,
                   persistent_settings, estop_pending, last>>
    /\ UNCHANGED uart_vars

\* DataBuffer::clear_data, from the plots panel
clear_data ==
    /\ UNCHANGED sync_vars
    /\ buffer_data # <<>>
    /\ buffer_data' = <<>>
    /\ UNCHANGED <<queue, serial_connected, uart_sender, send_address,
                   config_requested, logs, timer, controller_state,
                   persistent_settings, channel, workers, port_written, init_pc,
                   init_step, wait_buffer, wait_elapsed, init_outcomes, envelopes,
                   estop_pending, last>>

\* What the port delivers to the worker's read, one read at a time

\* The frame-recovery input: garbage, then an envelope with a T: payload of 8 hex digits
GarbageThenRcv ==
    <<"g", "a", "r", "b", "a", "g", "e", "+", "R", "C", "V", "=", "1", ",",
      "4", ",", "T", ":", "D", "E", "A", "D", "B", "E", "E", "F", ",", "1",
      "0", ",", "5", "\r", "\n">>

\* A well-formed envelope carrying a log message
LogRcv ==
    <<"+", "R", "C", "V", "=", "2", ",", "6", ",", "L", "O", "G", ":", "h",
      "i", ",", "-", "4", "0", ",", "9", "\r", "\n">>

\* A well-formed envelope carrying a telemetry line
TelemRcv ==
    <<"+", "R", "C", "V", "=", "1", ",", "5", "1", ",", "T", "E", "L", "E",
      "M", ":", "0", ".", "5", ":", "-", "1", ".", "2", "5", ":", "3", ":",
      "0", ".", "1", ":", "0", ":", "0", ":", "0", ".", "2", ":", "0", ":",
      "0", ":", "0", ".", "3", ":", "0", ":", "0", ":", "1", "2", ".", "5",
      ":", "1", "1", ".", "1", ",", "-", "4", "0", ",", "9", "\r", "\n">>

\* An envelope cut off before its end
PartialRcv ==
    <<"+", "R", "C", "V", "=", "1", ",", "4", ",", "T", ":", "D", "E">>

\* Fewer than five fields
ShortRcv ==
    <<"+", "R", "C", "V", "=", "1", ",", "2", "\r", "\n">>

\* Six fields
LongRcv ==
    <<"+", "R", "C", "V", "=", "1", ",", "6", ",", "L", "O", "G", ":", "h",
      "i", ",", "1", "0", ",", "5", ",", "7", "\r", "\n">>

\* A non-integer address
NonIntegerRcv ==
    <<"+", "R", "C", "V", "=", "x", ",", "6", ",", "L", "O", "G", ":", "h",
      "i", ",", "1", "0", ",", "5", "\r", "\n">>

\* A line that is no envelope
NoPrefixLine ==
    <<"h", "e", "l", "l", "o", "\r", "\n">>

\* A T: payload with characters that are no hex digits
BadHexRcv ==
    <<"+", "R", "C", "V", "=", "1", ",", "1", "0", ",", "T", ":", "Z", "Z",
      "Z", "Z", "Z", "Z", "Z", "Z", ",", "1", "0", ",", "5", "\r", "\n">>

\* A telemetry line with a field that is no number
BadTelemRcv ==
    <<"+", "R", "C", "V", "=", "1", ",", "5", "0", ",", "T", "E", "L", "E",
      "M", ":", "0", ".", "5", ":", "-", "1", ".", "2", "5", ":", "3", ":",
      "0", ".", "1", ":", "0", ":", "0", ":", "0", ".", "2", ":", "0", ":",
      "0", ":", "0", ".", "3", ":", "0", ":", "0", ":", "x", ".", "5", ":",
      "1", "1", ".", "1", ",", "-", "4", "0", ",", "9", "\r", "\n">>

\* The hex digits of a full telemetry record: every four-byte field the
\* little-endian float 1.0
HexRecord ==
    [k \in 1..(2 * TelemetryPacketSize) |->
        <<"0", "0", "0", "0", "8", "0", "3", "F">>[((k - 1) % 8) + 1]]

\* A well-formed envelope whose payload is T: and the hex of a full record
FullHexRcv ==
    <<"+", "R", "C", "V", "=", "1", ",", "2", "0", ",", "T", ":">>
        \o HexRecord
        \o <<",", "-", "4", "0", ",", "9", "\r", "\n">>

\* Two complete envelope lines in one read
TwoLinesRcv == LogRcv \o BadHexRcv

\* Stray bytes, then an envelope cut off before its end
GarbagePartialRcv == <<"x", "y">> \o PartialRcv

\* A byte that is no UTF-8, then a complete envelope line
InvalidThenLogRcv == <<InvalidByte>> \o LogRcv


WorkerReads ==
    {ReadTimedOut, ReadError, ReadData(ShortRcv), ReadData(NoPrefixLine)}

\* What the port delivers while send_lora_data waits for +OK
SendWaitReads == {ReadData(OkLine), ReadTimedOut}

\* Payloads of Send requests: a short line, one of exactly MaxPayload
\* characters and one of MaxPayload + 1
Payload16 == "0123456789ABCDEF"
Payload48 == Payload16 \o Payload16 \o Payload16
Payload240 == Payload48 \o Payload48 \o Payload48 \o Payload48 \o Payload48
Payload241 == Payload240 \o "0"
SendPayloads == {"FC:START", Payload240, Payload241}

\* The address of the address field's default text and the gamepad's
SendAddresses == {0, 2}

(* The link and its workers: connect and disconnect clicks, requests handed *)
(* to the worker, and the worker threads running their loops.               *)

NextWorker ==
    \/ \E open_ok \in BOOLEAN : connect_open(open_ok)
    \/ init_write(TRUE)
    \/ init_wait(ReadData(OkLine))
    \/ (init_pc = "idle" /\ disconnect_uart)
    \/ \E address \in SendAddresses, payload \in SendPayloads :
           init_pc = "idle" /\ sender_send(address, payload)
    \/ \E i \in 1..MaxWorkers, write_ok \in BOOLEAN : uart_loop_try_recv(i, write_ok)
    \/ \E i \in 1..MaxWorkers, read \in SendWaitReads : send_wait(i, read)
    \/ \E i \in 1..MaxWorkers, read \in WorkerReads : handle_serial_read(i, read)

SpecWorker == Init /\ [][NextWorker]_vars

(* One link and its worker sending what the application hands over. *)

NextSend ==
    \/ connect_open(TRUE)
    \/ init_write(TRUE)
    \/ init_wait(ReadData(OkLine))
    \/ \E address \in SendAddresses, payload \in SendPayloads :
           init_pc = "idle" /\ sender_send(address, payload)
    \/ \E write_ok \in BOOLEAN : uart_loop_try_recv(1, write_ok)
    \/ \E read \in SendWaitReads : send_wait(1, read)
    \/ handle_serial_read(1, ReadTimedOut)

SpecSend == Init /\ [][NextSend]_vars

ParseReads ==
    {ReadData(GarbageThenRcv), ReadData(LogRcv), ReadData(TelemRcv),
     ReadData(PartialRcv), ReadData(ShortRcv), ReadData(LongRcv),
     ReadData(NonIntegerRcv), ReadData(NoPrefixLine), ReadData(BadHexRcv),
     ReadData(BadTelemRcv), ReadData(FullHexRcv), ReadData(TwoLinesRcv),
     ReadData(GarbagePartialRcv), ReadData(InvalidThenLogRcv), ReadEmpty,
     ReadTimedOut}

(* One worker reading what the port delivers. *)

NextParse ==
    \/ connect_open(TRUE)
    \/ init_write(TRUE)
    \/ init_wait(ReadData(OkLine))
    \/ uart_loop_try_recv(1, TRUE)
    \/ \E read \in ParseReads : handle_serial_read(1, read)
    \/ clear_logs
    \/ clear_data

SpecParse == Init /\ [][NextParse]_vars

-----------------------------------------------------------------------------
(* The shared DataBuffer on its own: push, push_log, clear_data and        *)
(* clear_logs called in any order on rings that are empty or nearly full.  *)
(* A record or message is written as its number in push order.             *)

\* Items pushed to a ring that is far from full
MaxFresh == 4

\* Items pushed beyond a ring's capacity
MaxOverflow == 4

\* DataBuffer::push on the shared buffer
buffer_push(telem) ==
    /\ UNCHANGED sync_vars
    /\ buffer_data' = push(buffer_data, telem)
    /\ UNCHANGED <<queue, serial_connected, uart_sender, send_address,
                   config_requested, logs, timer, controller_state,
                   persistent_settings, channel, workers, port_written, init_pc,
                   init_step, wait_buffer, wait_elapsed, init_outcomes, envelopes,
                   estop_pending, last>>

\* DataBuffer::push_log on the shared buffer
buffer_push_log(message) ==
    /\ UNCHANGED sync_vars
    /\ logs' = push_log(logs, message)
    /\ UNCHANGED <<queue, serial_connected, uart_sender, send_address,
                   config_requested, timer, controller_state, persistent_settings,
                   channel, estop_pending, last>>
    /\ UNCHANGED uart_vars

\* The rings the shared buffer starts with: empty, or one short of full
RingStarts(capacity) == {<<>>, [k \in 1..(capacity - 1) |-> k]}

\* The number of the next item pushed to a ring
NextItem(ring) == IF ring = <<>> THEN 1 ELSE ring[Len(ring)] + 1

\* Pushes go to a ring that is nearly empty or nearly full
PushAllowed(ring, capacity) ==
    /\ Len(ring) < MaxFresh \/ Len(ring) >= capacity - 1
    /\ NextItem(ring) <= capacity + MaxOverflow

InitRing ==
    /\ queue = <<>>
    /\ serial_connected = FALSE
    /\ uart_sender = "None"
    /\ send_address = <<"0">>
    /\ config_requested = FALSE
    /\ logs \in RingStarts(MAX_LOG_MESSAGES)
    /\ timer = 0
    /\ controller_state = [roll |-> 0, pitch |-> 0, yaw |-> 0, throttle |-> 0]
    /\ persistent_settings = PersistentSettingsDefault
    /\ channel = <<>>
    /\ workers = <<>>
    /\ port_written = <<>>
    /\ init_pc = "idle"
    /\ init_step = 0
    /\ wait_buffer = <<>>
    /\ wait_elapsed = 0
    /\ buffer_data \in RingStarts(MAX_POINTS)
    /\ init_outcomes = <<>>
    /\ envelopes = <<>>
    /\ held = [t \in {"app", "worker"} |-> {}]
    /\ running = [t \in {"app", "worker"} |-> <<>>]
    /\ estop_pending = FALSE
    /\ last = Last("init", "-", FALSE, NoReturn)

RingPush ==
    PushAllowed(buffer_data, MAX_POINTS) /\ buffer_push(NextItem(buffer_data))

RingPushLog ==
    PushAllowed(logs, MAX_LOG_MESSAGES) /\ buffer_push_log(NextItem(logs))

NextRing ==
    \/ RingPush
    \/ RingPushLog
    \/ clear_data
    \/ clear_logs

SpecRing == InitRing /\ [][NextRing]_vars

-----------------------------------------------------------------------------
(* The two mutexes, Arc<Mutex<DataBuffer>> and CommandQueue.queue, and the  *)
(* blocking calls of the two threads.  A handler is written as the steps    *)
(* it takes in source order: lock and unlock of a mutex (a guard is         *)
(* dropped at the end of its scope), a blocking call, a send on the         *)
(* control channel, or work in memory.                                      *)

Threads == {"app", "worker"}

LockStep(mutex)  == [op |-> "lock", what |-> mutex]
UnlockStep(mutex) == [op |-> "unlock", what |-> mutex]
BlockingStep(call) == [op |-> "blocking", what |-> call]
ChannelSend == [op |-> "send", what |-> "sender.send"]
Work(what) == [op |-> "work", what |-> what]

\* CommandQueue::enqueue and dequeue: the guard lives inside the call
enqueue_steps ==
    <<LockStep("queue"), Work("retain, push_back"), UnlockStep("queue")>>
dequeue_steps ==
    <<LockStep("queue"), Work("pop_front"), UnlockStep("queue")>>

\* wait_for_response: reads with the port's timeout and 10 ms sleeps
wait_for_response_steps ==
    <<BlockingStep("port.read"), BlockingStep("thread::sleep")>>

\* A plausible slip: the buffer is locked before the read and held across it.
handle_serial_read_steps_locked_read ==
    {<<LockStep("data_buffer"), BlockingStep("port.read"), Work("parse_rcv"),
       Work("push"), UnlockStep("data_buffer")>>}

\* A plausible slip: the worker answers a config request itself; it queues the
\* Config command and logs under the queue's guard.
handle_serial_read_steps_worker_enqueues ==
    {<<BlockingStep("port.read"), Work("parse_rcv"), LockStep("queue"),
       Work("retain, push_back"), LockStep("data_buffer"), Work("push_log"),
       UnlockStep("data_buffer"), UnlockStep("queue")>>}

\* handle_serial_read: a read that times out, one that fails (100 ms sleep),
\* one whose bytes hold no envelope, and one that ends in process_line, which
\* locks the buffer after parse_rcv and holds it over push / push_log
handle_serial_read_steps ==
    {<<BlockingStep("port.read")>>,
     <<BlockingStep("port.read"), BlockingStep("thread::sleep")>>,
     <<BlockingStep("port.read"), Work("parse_rcv")>>,
     <<BlockingStep("port.read"), Work("parse_rcv"), LockStep("data_buffer"),
       Work("push"), UnlockStep("data_buffer")>>}

\* One iteration of uart_loop: try_recv, send_lora_data when a Send was
\* taken, then handle_serial_read
uart_loop_steps ==
    {<<Work("try_recv")>> \o r : r \in handle_serial_read_steps}
        \cup {<<Work("try_recv"), BlockingStep("port.write_all")>>
                  \o wait_for_response_steps \o r : r \in handle_serial_read_steps}

\* heartbeat_system: the config request is served under the buffer's guard,
\* the guard is dropped, then dequeue and the send on the channel
heartbeat_system_steps ==
    {<<LockStep("data_buffer"), UnlockStep("data_buffer")>>,
     <<LockStep("data_buffer"), UnlockStep("data_buffer")>>
         \o dequeue_steps \o <<ChannelSend>>,
     <<LockStep("data_buffer")>> \o enqueue_steps
         \o <<Work("push_log"), UnlockStep("data_buffer")>>
         \o dequeue_steps \o <<ChannelSend>>}

\* The Connect button: AppState::start_uart_thread opens the port and runs
\* the handshake on the calling thread, then queues Config, or logs the error
connect_steps ==
    {<<BlockingStep("open"), BlockingStep("port.write_all")>>
         \o wait_for_response_steps \o <<Work("thread::spawn")>> \o enqueue_steps,
     <<BlockingStep("open"), LockStep("data_buffer"), Work("push_log"),
       UnlockStep("data_buffer")>>}

\* The Disconnect button and AppState::send_data
disconnect_steps == {<<ChannelSend>>}

\* A command button or the PID window: enqueue, then a log line
command_steps ==
    {enqueue_steps,
     enqueue_steps \o <<LockStep("data_buffer"), Work("push_log"),
                        UnlockStep("data_buffer")>>}

\* The log and plot panels draw from the buffer under its guard
panel_steps ==
    {<<LockStep("data_buffer"), Work("draw"), UnlockStep("data_buffer")>>}

\* What each thread runs
Handlers(t) ==
    IF t = "worker" THEN uart_loop_steps
    ELSE heartbeat_system_steps \cup connect_steps \cup disconnect_steps
             \cup command_steps \cup panel_steps

\* A thread enters a handler
thread_begin(t, steps) ==
    /\ running[t] = <<>>
    /\ running' = [running EXCEPT ![t] = steps]
    /\ UNCHANGED <<queue, held, estop_pending, last, app_vars, uart_vars>>

\* A thread takes the next step of its handler; lock() waits for the mutex
thread_step(t) ==
    /\ running[t] # <<>>
    /\ LET step == Head(running[t])
       IN  /\ step.op = "lock" => \A u \in Threads : step.what \notin held[u]
           /\ held' = [held EXCEPT ![t] =
                          IF step.op = "lock" THEN @ \cup {step.what}
                          ELSE IF step.op = "unlock" THEN @ \ {step.what}
                          ELSE @]
    /\ running' = [running EXCEPT ![t] = Tail(@)]
    /\ UNCHANGED <<queue, estop_pending, last, app_vars, uart_vars>>

NextSync ==
    \/ \E t \in Threads : \E steps \in Handlers(t) : thread_begin(t, steps)
    \/ \E t \in Threads : thread_step(t)

SpecSync == Init /\ [][NextSync]_vars

-----------------------------------------------------------------------------
(* The codec on its own: commands of every kind are enqueued and encoded   *)
(* by dequeue.                                                             *)

\* Entries the queue may hold while the codec is exercised
MaxCodecQueue == 1

\* The axis byte of a PIDTunePacket: Pitch, Roll, Yaw
AxisValues == {0, 1, 2}

\* Commands of all twelve kinds; floats as bit patterns (0.2, 0.8, 1.0, ...)
CodecCommands ==
    {Bare(kind) : kind \in {"Start", "Stop", "EmergencyStop", "StartManual",
                            "Calibrate", "Reset"}}
        \cup {Cmd("SetThrottle", <<v>>) : v \in ThrottleInputs}
        \cup {Cmd("SetPoint", <<s.roll, s.pitch, s.yaw>>) : s \in StickInputs}
        \cup {HeartBeat(s) : s \in StickInputs}
        \cup {Cmd("TunePID", PidParametersDefault \o <<axis>>) : axis \in AxisValues}
        \cup {Cmd("SetMotorThrottle", <<v, 0, v, 0>>) : v \in ThrottleInputs}
        \cup {Config(PersistentSettingsDefault)}

NextCodec ==
    \/ \E a \in QueueAddresses, c \in CodecCommands :
           Len(queue) < MaxCodecQueue /\ QEnqueue(a, c)
    \/ QDequeue

SpecCodec == Init /\ [][NextCodec]_vars

-----------------------------------------------------------------------------
(* The acknowledgement waits under fair scheduling: the thread inside       *)
(* wait_for_response keeps running, whatever the port delivers.             *)

\* What the port delivers during a wait: acknowledgements, error lines, lines
\* that are neither, silence
WaitLiveReads ==
    {ReadData(OkLine), ReadData(ErrLine), ReadData(ReadyLine), ReadEmpty,
     ReadTimedOut, ReadError}

NextWait ==
    \/ connect_open(TRUE)
    \/ init_write(TRUE)
    \/ \E read \in WaitLiveReads : init_wait(read)
    \/ (init_pc = "idle" /\ disconnect_uart)
    \/ \E address \in SendAddresses :
           init_pc = "idle" /\ sender_send(address, "FC:START")
    \/ \E i \in 1..MaxWorkers : uart_loop_try_recv(i, TRUE)
    \/ \E i \in 1..MaxWorkers, read \in WaitLiveReads : send_wait(i, read)
    \/ \E i \in 1..MaxWorkers : handle_serial_read(i, ReadTimedOut)

SpecWait ==
    /\ Init
    /\ [][NextWait]_vars
    /\ WF_vars(\E read \in WaitLiveReads : init_wait(read))
    /\ \A i \in 1..MaxWorkers :
           WF_vars(\E read \in WaitLiveReads : send_wait(i, read))

(* One link under fair scheduling: the worker thread keeps running its     *)
(* loop while the application sends requests and then disconnects.  A read  *)
(* of the port returns after its timeout at the latest, so a worker inside  *)
(* handle_serial_read does not stay there.                                  *)

\* What the port delivers to the worker's reads
LinkReads == {ReadTimedOut, ReadData(ShortRcv)}

NextLink ==
    \/ (workers = <<>> /\ connect_open(TRUE))
    \/ init_write(TRUE)
    \/ init_wait(ReadData(OkLine))
    \/ (init_pc = "idle" /\ disconnect_uart)
    \/ \E address \in SendAddresses :
           init_pc = "idle" /\ sender_send(address, "FC:START")
    \/ \E write_ok \in BOOLEAN : uart_loop_try_recv(1, write_ok)
    \/ \E read \in SendWaitReads : send_wait(1, read)
    \/ \E read \in LinkReads : handle_serial_read(1, read)

SpecLink ==
    /\ Init
    /\ [][NextLink]_vars
    /\ WF_vars(\E write_ok \in BOOLEAN : uart_loop_try_recv(1, write_ok))
    /\ WF_vars(\E read \in SendWaitReads : send_wait(1, read))
    /\ WF_vars(handle_serial_read(1, ReadTimedOut))

-----------------------------------------------------------------------------
(* One worker whose port delivers inbound envelope lines only while        *)
(* send_lora_data waits for its +OK.  The reads of handle_serial_read time  *)
(* out or deliver the rest of an envelope whose head arrived during a wait. *)

\* The bytes that complete PartialRcv to a well-formed envelope line
RestOfPartialRcv ==
    <<"A", "D", ",", "1", "0", ",", "5", "\r", "\n">>

\* What the port delivers while send_lora_data waits for +OK
AckWaitReads ==
    {ReadData(OkLine), ReadData(LogRcv), ReadData(TelemRcv),
     ReadData(PartialRcv), ReadTimedOut}

\* What the port delivers to handle_serial_read
AfterWaitReads == {ReadTimedOut, ReadData(RestOfPartialRcv)}

NextAckWait ==
    \/ (workers = <<>> /\ connect_open(TRUE))
    \/ init_write(TRUE)
    \/ init_wait(ReadData(OkLine))
    \/ \E address \in SendAddresses :
           init_pc = "idle" /\ sender_send(address, "FC:START")
    \/ (init_pc = "idle" /\ disconnect_uart)
    \/ \E write_ok \in BOOLEAN : uart_loop_try_recv(1, write_ok)
    \/ \E read \in AckWaitReads : send_wait(1, read)
    \/ \E read \in AfterWaitReads : handle_serial_read(1, read)

SpecAckWait == Init /\ [][NextAckWait]_vars

-----------------------------------------------------------------------------
(* Connections one after the other, from the connect click to the lines on  *)
(* the port: the gamepad's emergency stop is pressed while disconnected, the *)
(* scheduler runs while connected, and the worker writes what it is handed.  *)
(* The connect call may also be made on a connected link.  port_written      *)
(* holds the lines written since the port was last opened.                   *)

\* Every worker started so far has left its loop
AllWorkersExited == \A i \in 1..Len(workers) : workers[i].pc = "exited"

\* The sticks at rest
SticksAtRest == [roll |-> 0, pitch |-> 0, yaw |-> 0, throttle |-> 0]

NextConnect ==
    \/ (AllWorkersExited /\ connect_open(TRUE))
    \/ \E open_ok \in BOOLEAN : serial_connected /\ connect_open(open_ok)
    \/ init_write(TRUE)
    \/ init_wait(ReadData(OkLine))
    \/ (init_pc = "idle" /\ serial_connected /\ disconnect_uart)
    \/ (init_pc = "idle" /\ ~serial_connected
            /\ controller_input_system(SticksAtRest, TRUE))
    \/ \E delta \in FrameDeltasMs :
           /\ init_pc = "idle"
           /\ Len(port_written) <= Len(InitCommands) + MaxWrites
           /\ heartbeat_system(delta)
    \/ \E i \in 1..MaxWorkers : uart_loop_try_recv(i, TRUE)
    \/ \E i \in 1..MaxWorkers : send_wait(i, ReadData(OkLine))
    \/ \E i \in 1..MaxWorkers : handle_serial_read(i, ReadTimedOut)

SpecConnect == Init /\ [][NextConnect]_vars

-----------------------------------------------------------------------------
(* From the codec to the port: a command of any kind is enqueued before    *)
(* the connect, the scheduler hands the encoded lines to the worker and     *)
(* send_lora_data applies its length check to them.                         *)

\* AT+SEND lines written while the codec's lines are followed to the port
MaxCodecWrites == 1

\* One command of every kind
OnePerKind ==
    {CHOOSE c \in CodecCommands : c.kind = kind : kind \in CommandKinds}

NextCodecLink ==
    \/ (workers = <<>> /\ connect_open(TRUE))
    \/ init_write(TRUE)
    \/ init_wait(ReadData(OkLine))
    \/ \E c \in OnePerKind :
           /\ init_pc = "idle"
           /\ ~serial_connected
           /\ Len(queue) < MaxCodecQueue
           /\ QEnqueue(GamepadAddress, c)
    \/ \E delta \in FrameDeltasMs :
           /\ init_pc = "idle"
           /\ Len(port_written) < Len(InitCommands) + MaxCodecWrites
           /\ heartbeat_system(delta)
    \/ uart_loop_try_recv(1, TRUE)
    \/ send_wait(1, ReadData(OkLine))
    \/ handle_serial_read(1, ReadTimedOut)

SpecCodecLink == Init /\ [][NextCodecLink]_vars

-----------------------------------------------------------------------------
(* The claims *)

\* C1: after enqueue(addr, EmergencyStop) the queue holds exactly one entry, the
\* emergency-stop entry, every other pending entry having been cleared (and
\* estop_active is true: CommandQueue has no such field, its only field is queue).
C1_EstopLeavesOnlyEstop ==
    (last.op = "enqueue" /\ last.kind = "EmergencyStop")
        => (Len(queue) = 1 /\ queue[1].cmd.kind = "EmergencyStop")

\* C2: once EmergencyStop has been enqueued and until Reset is enqueued, every
\* heartbeat tick of the connected link transmits the emergency-stop token,
\* whatever the queue holds.  Stated for the ticks that can transmit (the address
\* field parses), so that a skipped tick is not what refutes it.
C2_EstopEveryTick ==
    [][\A delta \in FrameDeltasMs :
          (HeartbeatTick(delta) /\ estop_pending /\ parse_u16(send_address) # ParseErr)
              => (TransmitsOne /\ Transmitted.data = get_ascii(Bare("EmergencyStop")))]_vars

\* C3: after any sequence of enqueue and dequeue the queue holds at most one
\* entry per CommandKind discriminant, so never more than the 12 kinds.
C3_OneEntryPerKind ==
    /\ \A i, j \in 1..Len(queue) :
           i # j => discriminant(queue[i].cmd) # discriminant(queue[j].cmd)
    /\ Len(queue) <= Cardinality(CommandKinds)
    /\ Cardinality(CommandKinds) = 12

\* An enqueue replaced an entry of its kind in a queue holding every kind used.
C3_Witness ==
    /\ last.op = "enqueue"
    /\ last.flag
    /\ Len(queue) = Cardinality({c.kind : c \in QueueCommands})

\* C4: coalescing is latest-wins: an enqueue of a kind the queue already holds
\* leaves exactly one entry of that kind, carrying the new call's address and
\* payload, at the tail; the entries of the other kinds keep their content and
\* their relative order.
C4_LatestWins ==
    [][\A a \in QueueAddresses, c \in QueueCommands :
          (QEnqueue(a, c) /\ HasKind(queue, c.kind))
              => LET n == Len(queue')
                 IN  /\ n >= 1
                     /\ queue'[n] = Entry(a, c)
                     /\ \A i \in 1..(n - 1) : queue'[i].cmd.kind # c.kind
                     /\ SubSeq(queue', 1, n - 1)
                            = SelectSeq(queue, LAMBDA e : e.cmd.kind # c.kind)]_vars

\* SetThrottle(0.8) for address 2 replaced a queued SetThrottle and sits at the
\* tail, behind two entries of other kinds.
C4_Witness ==
    /\ last.op = "enqueue"
    /\ last.kind = "SetThrottle"
    /\ last.flag
    /\ Len(queue) = 3
    /\ queue[3] = Entry(2, Cmd("SetThrottle", <<1061997773>>))

\* C5: dequeue is non-blocking and FIFO: on a non-empty queue it removes and
\* returns the oldest entry, its address and its encoded line, and leaves the
\* others in order; on an empty queue it returns nothing and changes nothing.
C5_DequeueFifo ==
    [][QDequeue
          => IF queue = <<>>
             THEN queue' = <<>> /\ last'.ret = NoReturn
             ELSE /\ last'.ret = [address |-> Head(queue).address,
                                  data    |-> get_ascii(Head(queue).cmd)]
                  /\ queue' = Tail(queue)]_vars

\* dequeue returned SetThrottle(0.2) for address 2 as its line and left two
\* younger entries queued.
C5_Witness ==
    /\ last.op = "dequeue"
    /\ last.ret = [address |-> 2, data |-> "ST:CDCC4C3E"]
    /\ Len(queue) = 2

\* C6: on a heartbeat tick of the connected link with no emergency stop pending:
\* with an empty queue the tick transmits a Heartbeat built from the control
\* state and the queue stays empty; with a non-empty queue it transmits the head
\* entry to that entry's own address, removes it, and sends no Heartbeat.  The
\* queue is the queue the tick dequeues from, after the config request is served.
C6_TickSendsHeadOrHeartbeat ==
    [][\A delta \in FrameDeltasMs :
          (HeartbeatTick(delta) /\ ~estop_pending)
              => IF queue_after_config = <<>>
                 THEN /\ channel' = Append(channel,
                                           Send(parse_u16(send_address),
                                                get_ascii(HeartBeat(controller_state))))
                      /\ queue' = <<>>
                 ELSE /\ channel' = Append(channel,
                                           Send(Head(queue_after_config).address,
                                                get_ascii(Head(queue_after_config).cmd)))
                      /\ queue' = Tail(queue_after_config)]_vars

\* C7: while the link is connected every heartbeat tick hands exactly one Send
\* request to the worker, never zero and never more than one.
C7_OneSendPerTick ==
    [][\A delta \in FrameDeltasMs :
          HeartbeatTick(delta)
              => (TransmitsOne /\ Transmitted.type = "Send")]_vars

\* C8: while the link stays connected and ticks keep occurring, a Heartbeat is
\* transmitted infinitely often, whatever the UI keeps enqueueing.
C8_HeartbeatsNeverStop ==
    (<>[]serial_connected) => []<><<HeartbeatSent>>_vars

\* C9: with the link not connected an invocation of the scheduler is a no-op:
\* nothing is transmitted or dequeued, and the queue, the config-requested flag,
\* the log ring and the timer are left as they were.
C9_DisconnectedNoOp ==
    [][\A delta \in FrameDeltasMs :
          (heartbeat_system(delta) /\ ~serial_connected)
              => UNCHANGED <<queue, channel, config_requested, logs, timer>>]_vars

\* The scheduler ran on a disconnected link with a command queued and a
\* Disconnect still in the channel, and both are still there.
C9_Witness ==
    /\ last.op = "heartbeat_system"
    /\ ~serial_connected
    /\ queue # <<>>
    /\ channel # <<>>

\* C10: whenever the scheduler runs on the connected link with the
\* config-requested flag set, the flag is cleared and a Config command built
\* from the persisted settings has been enqueued (it is the youngest entry of
\* the queue, or the one this very tick transmits): the flag is never cleared
\* without the Config command.
C10_FlagClearedWithConfig ==
    [][\A delta \in FrameDeltasMs :
          (heartbeat_system(delta) /\ serial_connected /\ config_requested)
              => /\ ~config_requested'
                 /\ \/ /\ queue' # <<>>
                       /\ queue'[Len(queue')].cmd = Config(persistent_settings)
                    \/ /\ TransmitsOne
                       /\ Transmitted.data = get_ascii(Config(persistent_settings))]_vars

\* The outcomes of the handshake steps are all acknowledgements.
AllAcknowledged(outcomes) == \A k \in 1..Len(outcomes) : outcomes[k] = "ok"

WaitReturned ==
    IF Len(init_outcomes') = Len(init_outcomes) + 1
    THEN init_outcomes'[Len(init_outcomes')]
    ELSE "-"

\* C12: when a read completes a line during the wait, a line containing
\* +ERR= makes the wait fail at once, otherwise a line containing +OK makes
\* it succeed, and any other line clears the buffer and the wait goes on.
C12_WaitClassifiesLine ==
    [][\A read \in InitReads :
          (/\ init_wait(read)
           /\ wait_elapsed < WaitReads
           /\ read.kind = "Data"
           /\ ends_with(wait_buffer \o read.bytes, CRLF))
          => LET line == trim(wait_buffer \o read.bytes)
             IN  IF contains(line, ErrPrefix) THEN WaitReturned = "err"
                 ELSE IF contains(line, OkToken) THEN WaitReturned = "ok"
                 ELSE /\ WaitReturned = "-"
                      /\ init_pc' = "wait"
                      /\ wait_buffer' = <<>>]_vars

\* A step that ends a connect attempt in failure: the port did not open, a
\* command could not be written, or a wait returned false
ConnectFailed ==
    \/ (connect_open(FALSE) /\ ~serial_connected)
    \/ init_write(FALSE)
    \/ \E read \in InitReads :
           init_wait(read) /\ init_pc' = "idle" /\ ~last'.flag

\* C13: a connect attempt that fails spawns no worker and creates no channel,
\* and the application is disconnected during and after it as it was before.
C13_FailedConnectLeavesNothing ==
    /\ [](init_pc # "idle" => (~serial_connected /\ uart_sender = "None"))
    /\ [][ConnectFailed =>
            /\ workers' = workers
            /\ channel' = channel
            /\ ~serial_connected' /\ uart_sender' = "None"
            /\ UNCHANGED <<serial_connected, uart_sender>>]_vars

\* A reconnect failed in its handshake after an earlier link had been
\* disconnected: the one worker of the earlier link is all there is.
C13_Witness ==
    /\ init_pc = "idle"
    /\ last.op = "start_uart_thread" /\ ~last.flag
    /\ init_outcomes # <<>>
    /\ Len(workers) = 1
    /\ channel = <<Disconnect>>

\* Worker i takes a step of its loop
WorkerStep(i) ==
    \/ \E write_ok \in BOOLEAN : uart_loop_try_recv(i, write_ok)
    \/ \E read \in SendWaitReads : send_wait(i, read)
    \/ \E read \in WorkerReads : handle_serial_read(i, read)

\* The receiver of worker i holds a Disconnect the UI has sent
DisconnectPending(i) ==
    i <= Len(workers) /\ \E k \in 1..Len(Rx(i)) : Rx(i)[k] = Disconnect

\* C14: once the UI has sent Disconnect, the worker writes nothing more to
\* the serial port, and the next time it is at the top of its loop it exits.
C14_DisconnectStopsWorker ==
    [][\A i \in 1..MaxWorkers :
          (WorkerStep(i) /\ DisconnectPending(i))
          => /\ port_written' = port_written
             /\ workers[i].pc = "recv" => workers'[i].pc = "exited"]_vars

\* C15: a worker leaves its loop only by taking a Disconnect off its channel;
\* no read result and no inbound data ends it.
C15_OnlyDisconnectEndsWorker ==
    [][\A i \in 1..Len(workers) :
          (InLoop(i) /\ workers'[i].pc \notin {"recv", "wait", "read"})
          => /\ workers[i].pc = "recv"
             /\ Rx(i) # <<>>
             /\ Head(Rx(i)) = Disconnect
             /\ workers'[i].pc = "exited"]_vars

\* C16: at most one worker is inside its loop, owning a serial handle.
C16_OneWorkerOwnsPort ==
    Cardinality({i \in 1..Len(workers) : InLoop(i)}) <= 1

\* C17: a Send request with a payload of more than 240 bytes writes nothing;
\* one of at most 240 bytes is written as the single line
\* AT+SEND=<address>,<len>,<data>\r\n with <len> the payload length, and the
\* worker then waits for +OK for at most WaitReads reads.
C17_SendLineAndCap ==
    /\ [](\A i \in 1..Len(workers) : workers[i].wait_elapsed <= WaitReads)
    /\ [][\A i \in 1..MaxWorkers, write_ok \in BOOLEAN :
             (/\ uart_loop_try_recv(i, write_ok)
              /\ Rx(i) # <<>>
              /\ Head(Rx(i)).type = "Send")
             => LET cmd == Head(Rx(i))
                IN  IF Len(cmd.data) > 240
                    THEN port_written' = port_written /\ workers'[i].pc = "read"
                    ELSE IF write_ok
                    THEN /\ port_written' =
                                Append(port_written,
                                       "AT+SEND=" \o ToString(cmd.address) \o ","
                                           \o ToString(Len(cmd.data)) \o ","
                                           \o cmd.data \o "\r\n")
                         /\ workers'[i].pc = "wait"
                    ELSE port_written' = port_written]_vars
    /\ [][\A i \in 1..MaxWorkers, read \in SendWaitReads :
             (send_wait(i, read) /\ workers[i].wait_elapsed >= WaitReads)
             => workers'[i].pc = "read"]_vars

\* The worker has written a payload of exactly 240 bytes and waits for +OK.
C17_Witness ==
    /\ workers # <<>>
    /\ workers[1].pc = "wait"
    /\ port_written[Len(port_written)] = "AT+SEND=2,240," \o Payload240 \o "\r\n"

\* The envelope of the frame-recovery bytes and the envelope of the second line
GarbageEnvelope ==
    RcvSome(1, 4, <<"T", ":", "D", "E", "A", "D", "B", "E", "E", "F">>, 10, 5)
SecondEnvelope ==
    RcvSome(2, 6, <<"L", "O", "G", ":", "h", "i">>, -40, 9)

\* The worker has been fed the frame-recovery bytes and nothing else that
\* parsed, and is about to read again
FedGarbageThenRcv ==
    /\ Len(workers) = 1
    /\ workers[1].pc = "read"
    /\ workers[1].buffer =
           process_bytes(ReadState(<<>>, <<>>, <<>>, <<>>), GarbageThenRcv).buffer
    /\ envelopes =
           process_bytes(ReadState(<<>>, <<>>, <<>>, <<>>), GarbageThenRcv).envelopes

\* C18: feeding "garbage+RCV=1,4,T:DEADBEEF,10,5\r\n" and, in a later feed, a
\* second well-formed +RCV line yields exactly one parsed envelope in total,
\* the most recent one, and never an envelope mixing fields of the two.
C18_FrameRecoveryYieldsOneEnvelope ==
    [][(FedGarbageThenRcv /\ handle_serial_read(1, ReadData(LogRcv)))
       => envelopes' = <<SecondEnvelope>>]_vars

\* The line process_bytes extracts from a read of one line into an empty buffer
ExtractedLine(read) == trim(keep_from_last_rcv(read.bytes))

\* A read that delivers exactly one line, to a worker whose buffer is empty
OneLineRead(i, read) ==
    /\ read.kind = "Data"
    /\ workers[i].buffer = <<>>
    /\ Occurrences(read.bytes, <<"\n">>) = {Len(read.bytes)}

\* +RCV=<int>,<int>,<payload>,<int>,<int> with exactly five fields
WellFormedRcv(line) ==
    /\ starts_with(line, <<"+", "R", "C", "V", "=">>)
    /\ LET parts == split(SubSeq(line, 6, Len(line)), ",")
       IN  /\ Len(parts) = 5
           /\ parse_u32(parts[1]).ok
           /\ parse_u32(parts[2]).ok
           /\ parse_i32(parts[4]).ok
           /\ parse_i32(parts[5]).ok

\* C19: an extracted line that is not +RCV=<int>,<int>,<payload>,<int>,<int>
\* with exactly five comma-separated fields yields no envelope, appends nothing
\* to the shared buffers and is no fatal error: the worker goes on with its loop.
C19_MalformedLineDropped ==
    [][\A read \in ParseReads :
          (/\ handle_serial_read(1, read)
           /\ OneLineRead(1, read)
           /\ ~WellFormedRcv(ExtractedLine(read)))
          => /\ envelopes' = envelopes
             /\ buffer_data' = buffer_data
             /\ logs' = logs
             /\ workers'[1].pc = "recv"]_vars

\* A payload T:<hex> whose hex part has not twice the record size in digits, or
\* holds a character that is no hex digit
MalformedHexPayload(message) ==
    /\ starts_with(message, <<"T", ":">>)
    /\ LET hex == SubSeq(message, 3, Len(message))
       IN  \/ Len(hex) # 2 * TelemetryPacketSize
           \/ \E k \in 1..Len(hex) :
                  hex[k] \notin {"0", "1", "2", "3", "4", "5", "6", "7", "8", "9",
                                 "a", "b", "c", "d", "e", "f",
                                 "A", "B", "C", "D", "E", "F"}

\* C20: an envelope whose payload is T:<hex> with a hex length other than twice
\* the telemetry record size, or with invalid hex characters, appends no
\* telemetry record, leaves the telemetry ring unchanged and does not stop the
\* worker's read path.
C20_MalformedHexAppendsNothing ==
    [][\A read \in ParseReads :
          (/\ handle_serial_read(1, read)
           /\ OneLineRead(1, read)
           /\ WellFormedRcv(ExtractedLine(read))
           /\ MalformedHexPayload(parse_rcv(ExtractedLine(read)).message))
          => /\ buffer_data' = buffer_data
             /\ envelopes' = Append(envelopes, parse_rcv(ExtractedLine(read)))
             /\ workers'[1].pc = "recv"]_vars

\* The ring holds a record, the last envelope parsed carried invalid hex
\* characters, and the worker is back at the top of its loop.
C20_Witness ==
    /\ Len(workers) = 1
    /\ workers[1].pc = "recv"
    /\ buffer_data # <<>>
    /\ envelopes # <<>>
    /\ envelopes[Len(envelopes)].message =
           <<"T", ":", "Z", "Z", "Z", "Z", "Z", "Z", "Z", "Z">>

\* C21: after a connect in which all five AT commands were acknowledged and
\* the worker has entered its loop, receiving the one line
\* "+RCV=1,20,T:<hex of a full telemetry record>,-40,9\r\n" appends exactly one
\* telemetry record to the shared telemetry ring.
C21_FullHexRecordAppended ==
    [][(/\ handle_serial_read(1, ReadData(FullHexRcv))
        /\ OneLineRead(1, ReadData(FullHexRcv))
        /\ init_outcomes = [k \in 1..Len(InitCommands) |-> "ok"])
       => /\ Len(buffer_data') = Len(buffer_data) + 1
          /\ SubSeq(buffer_data', 1, Len(buffer_data)) = buffer_data]_vars

\* The n most recent items of a sequence, oldest first
MostRecent(seq, n) == SubSeq(seq, Len(seq) - n + 1, Len(seq))

\* The items of a ring are successive in push order
InPushOrder(ring) == \A k \in 1..(Len(ring) - 1) : ring[k + 1] = ring[k] + 1

\* C22: after any sequence of push, push_log, clear_data and clear_logs the
\* telemetry ring holds at most 500 records and the log ring at most 100
\* entries; a push beyond the capacity leaves exactly the most recent
\* capacity-many items in push order, the oldest evicted first, and a push to
\* one ring never changes the other.
C22_RingsBoundedDropOldest ==
    /\ [](/\ Len(buffer_data) <= 500
          /\ Len(logs) <= 100
          /\ InPushOrder(buffer_data)
          /\ InPushOrder(logs))
    /\ [][RingPush =>
             /\ buffer_data' =
                    MostRecent(Append(buffer_data, NextItem(buffer_data)),
                               IF Len(buffer_data) < 500
                               THEN Len(buffer_data) + 1 ELSE 500)
             /\ logs' = logs]_vars
    /\ [][RingPushLog =>
             /\ logs' =
                    MostRecent(Append(logs, NextItem(logs)),
                               IF Len(logs) < 100 THEN Len(logs) + 1 ELSE 100)
             /\ buffer_data' = buffer_data]_vars

\* Both rings are full and have evicted their oldest items: the telemetry
\* ring holds records 3 .. 502 and the log ring messages 2 .. 101.
C22_Witness ==
    /\ Len(buffer_data) = 500
    /\ buffer_data[1] = 3
    /\ buffer_data[500] = 502
    /\ Len(logs) = 100
    /\ logs[1] = 2
    /\ logs[100] = 101

\* C23: neither thread holds the telemetry/log mutex or the command-queue
\* mutex across a blocking I/O step: the worker holds no lock during a serial
\* read, a serial write, an acknowledgement wait or a sleep, and the
\* application thread holds no lock while it sends on the control channel.
C23_NoLockAcrossBlockingStep ==
    \A t \in Threads :
        (running[t] # <<>> /\ Head(running[t]).op \in {"blocking", "send"})
            => held[t] = {}

\* The worker is about to read the port, having released the buffer in an
\* earlier iteration, while the application thread holds both mutexes inside
\* heartbeat_system.
C23_Witness ==
    /\ running["worker"] # <<>>
    /\ Head(running["worker"]) = BlockingStep("port.read")
    /\ held["worker"] = {}
    /\ held["app"] = {"data_buffer", "queue"}

\* heartbeat_system runs a tick that takes an entry off the queue
TickDequeues(delta) ==
    /\ heartbeat_system(delta)
    /\ serial_connected
    /\ tick_sends(timer_tick(timer, delta).just_finished)
    /\ queue_after_config # <<>>

\* C28: every enqueued command is handed to the worker at most once: the tick
\* that dequeues an entry hands it over in one request, after the tick the
\* entry is no longer in the queue, and no later tick can find it there unless
\* it is enqueued again.
C28_DequeuedEntryHandedOnce ==
    [][\A delta \in FrameDeltasMs :
          TickDequeues(delta)
              => /\ Len(channel') = Len(channel) + 1
                 /\ channel'[Len(channel')] =
                        Send(Head(queue_after_config).address,
                             get_ascii(Head(queue_after_config).cmd))
                 /\ Len(queue') = Len(queue_after_config) - 1
                 /\ \A k \in 1..Len(queue') : queue'[k] = queue_after_config[k + 1]
                 /\ ~HasKind(queue', Head(queue_after_config).cmd.kind)]_vars

\* A tick has handed the Reset command to the worker and the queue no longer
\* holds a Reset.
C28_Witness ==
    /\ last.op = "heartbeat_system"
    /\ last.flag
    /\ channel # <<>>
    /\ channel[Len(channel)] = Send(0, "FC:RESET")
    /\ ~HasKind(queue, "Reset")

\* The documented token of a kind without payload
DocumentedToken(kind) ==
    CASE kind = "Start"         -> "FC:START"
      [] kind = "Stop"          -> "FC:STOP"
      [] kind = "StartManual"   -> "FC:MANUAL"
      [] kind = "Calibrate"     -> "FC:CALIBRATE"
      [] kind = "Reset"         -> "FC:RESET"
      [] kind = "EmergencyStop" -> "ES"

\* The documented tag and record size in bytes of a kind with payload
DocumentedTag(kind) ==
    CASE kind = "SetThrottle"      -> "ST"
      [] kind = "SetPoint"         -> "SP"
      [] kind = "HeartBeat"        -> "HB"
      [] kind = "SetMotorThrottle" -> "MB"
      [] kind = "TunePID"          -> "TP"
      [] kind = "Config"           -> "CF"
DocumentedRecordSize(kind) ==
    CASE kind = "SetThrottle"      -> 4
      [] kind = "SetPoint"         -> 12
      [] kind = "HeartBeat"        -> 16
      [] kind = "SetMotorThrottle" -> 16
      [] kind = "TunePID"          -> 21
      [] kind = "Config"           -> 76

PayloadKinds ==
    {"SetThrottle", "SetPoint", "HeartBeat", "SetMotorThrottle", "TunePID", "Config"}

\* C24: encoding is a function of the command: a kind without payload gives
\* its fixed token, a kind with payload gives <tag>:<HEX> with its own
\* two-letter tag and a hex part of twice its record size (ST 4 bytes, SP 12,
\* HB 16, MB 16, TP 21, CF 76), and no command of another kind gives the same
\* line or a line with the same tag.
C24_EncodingShape ==
    [][(QDequeue /\ queue # <<>>)
       => LET cmd  == Head(queue).cmd
              line == last'.ret.data
          IN  /\ cmd.kind \notin PayloadKinds => line = DocumentedToken(cmd.kind)
              /\ cmd.kind \in PayloadKinds =>
                     /\ Len(line) = 3 + 2 * DocumentedRecordSize(cmd.kind)
                     /\ line = DocumentedTag(cmd.kind) \o ":" \o to_hex(cmd)
                     /\ \A kind \in PayloadKinds \ {cmd.kind} :
                            DocumentedTag(kind) # DocumentedTag(cmd.kind)
              /\ \A other \in CodecCommands :
                     other.kind # cmd.kind => get_ascii(other) # line
              /\ \A other \in CodecCommands :
                     other = cmd => get_ascii(other) = line]_vars

\* dequeue has encoded a TunePID command for the roll axis.
C24_Witness ==
    /\ last.op = "dequeue"
    /\ last.ret.data = "TP:0000803F00000000000000000000204100" \o "00C84201"

\* What the worker's read path starts a feed with
FeedState(i) == ReadState(workers[i].buffer, buffer_data, logs, envelopes)

\* C25: the envelopes parsed from the inbound bytes depend only on the
\* concatenated bytes and not on how they are split across reads: two complete
\* envelope lines arriving in one read yield the same two envelopes as when
\* they arrive in two reads.
C25_SplitOfReadsIrrelevant ==
    [][handle_serial_read(1, ReadData(TwoLinesRcv))
       => envelopes' =
              process_bytes(process_bytes(FeedState(1), LogRcv), BadHexRcv).envelopes]_vars

\* C26: each time a feed returns, the accumulation buffer holds no newline and
\* holds the marker +RCV at most once, and then only at its start.
C26_BufferAfterFeed ==
    \A i \in 1..Len(workers) :
        workers[i].pc # "panicked"
            => /\ \A k \in 1..Len(workers[i].buffer) : workers[i].buffer[k] # "\n"
               /\ Occurrences(workers[i].buffer, <<"+", "R", "C", "V">>) \subseteq {1}

\* A feed has returned and left the start of an envelope in the buffer, two
\* envelopes having been parsed before.
C26_Witness ==
    /\ Len(workers) = 1
    /\ workers[1].pc = "recv"
    /\ workers[1].buffer =
           <<"+", "R", "C", "V", "=", "1", ",", "4", ",", "T", ":", "D", "E">>
    /\ Len(envelopes) = 2

\* C27: on a feed that holds an invalid UTF-8 sequence only that sequence is
\* dropped: the valid bytes of the feed are appended to the buffer and a
\* complete line among them is extracted.
C27_InvalidUtf8OnlyDropped ==
    [][handle_serial_read(1, ReadData(InvalidThenLogRcv))
       => /\ envelopes' = process_bytes(FeedState(1), LogRcv).envelopes
          /\ logs' = process_bytes(FeedState(1), LogRcv).logs
          /\ workers'[1].buffer = process_bytes(FeedState(1), LogRcv).buffer]_vars

\* C29: once the UI has sent Disconnect, and whatever number of Send requests
\* are ahead of it in the control channel, the worker eventually consumes it,
\* drops the serial handle and exits its loop.
C29_DisconnectEventuallyHonoured ==
    DisconnectPending(1) ~> (workers # <<>> /\ workers[1].pc = "exited")

\* C30: every acknowledgement wait terminates: wait_for_response returns after
\* a bounded number of read attempts, also when the port keeps delivering
\* bytes that form neither an acknowledgement nor an error line, so that
\* neither the handshake nor an outbound send blocks its caller forever.
C30_WaitTerminates ==
    /\ [](/\ wait_elapsed <= WaitReads
          /\ \A i \in 1..Len(workers) : workers[i].wait_elapsed <= WaitReads)
    /\ (init_pc = "wait") ~> (init_pc # "wait")
    /\ \A i \in 1..MaxWorkers :
           (i <= Len(workers) /\ workers[i].pc = "wait")
               ~> (i <= Len(workers) /\ workers[i].pc # "wait")

\* A wait of the handshake has given up after reading lines that were neither
\* an acknowledgement nor an error, and a worker's wait for +OK is under way.
C30_Witness ==
    /\ init_outcomes # <<>>
    /\ init_outcomes[Len(init_outcomes)] = "timeout"
    /\ init_pc = "idle"
    /\ workers # <<>>
    /\ workers[1].pc = "wait"
    /\ workers[1].wait_elapsed = WaitReads

\* The wait of worker i reads the envelope bytes of `read`
WaitReadsEnvelope(i, read) ==
    /\ read \in {ReadData(LogRcv), ReadData(TelemRcv), ReadData(PartialRcv)}
    /\ send_wait(i, read)

\* C31: bytes the worker reads while it waits for the +OK of an outbound Send
\* are consumed by that wait and never reach the frame parser: a wait step that
\* reads an envelope line leaves the parser's buffer, the telemetry ring and the
\* logs as they were, and when envelope lines arrive only during waits no
\* telemetry record, log entry or parsed envelope ever appears, also after a
\* later read has delivered the rest of a line whose head a wait consumed.
C31_WaitBytesNeverParsed ==
    /\ [](buffer_data = <<>> /\ logs = <<>> /\ envelopes = <<>>)
    /\ [][\A read \in AckWaitReads :
            WaitReadsEnvelope(1, read) =>
                /\ workers'[1].buffer = workers[1].buffer
                /\ buffer_data' = buffer_data
                /\ logs' = logs
                /\ envelopes' = envelopes]_vars

\* A wait has consumed the head of an envelope line and is still running
C31_Witness ==
    /\ workers # <<>>
    /\ workers[1].pc = "wait"
    /\ workers[1].wait_buffer = PartialRcv
    /\ workers[1].buffer = <<>>
    /\ buffer_data = <<>> /\ logs = <<>>

\* Some Send request is waiting in the receiver of worker j, which is still in
\* its loop.  The sender is replaced at every connect, so what waits in an
\* earlier worker's receiver was issued before anything handed to a later one.
OlderSendPending(i) ==
    \E j \in 1..(i - 1) :
        /\ InLoop(j)
        /\ \E k \in 1..Len(Rx(j)) : Rx(j)[k] # Disconnect

\* C32: the worker consumes at most one control request per loop iteration, in
\* channel order, and the AT+SEND lines appear on the port in the order in which
\* the Send requests were issued: a top-of-loop step removes just the oldest
\* request of the worker's receiver, the line it writes is the line of that
\* request, no Send request issued earlier is still waiting to be written when
\* it is written, and a worker that has exited on a Disconnect has left no
\* Send behind.
C32_WritesInIssueOrder ==
    [][\A i \in 1..MaxWorkers, write_ok \in BOOLEAN :
         (uart_loop_try_recv(i, write_ok) /\ Rx(i) # <<>>) =>
             /\ workers'[i].rx = IF i = Len(workers) THEN workers[i].rx
                                 ELSE Tail(workers[i].rx)
             /\ (i = Len(workers) => channel' = Tail(channel))
             /\ port_written' \in
                    {port_written,
                     Append(port_written,
                            SendLine(Head(Rx(i)).address, Head(Rx(i)).data))}
             /\ (port_written' # port_written => ~OlderSendPending(i))
             /\ (workers'[i].pc = "exited" =>
                    \A k \in 1..Len(Rx(i)) : Rx(i)[k] = Disconnect)]_vars

\* The position of the entry of a kind in the queue, 0 when there is none
PosOfKind(q, kind) ==
    IF HasKind(q, kind) THEN CHOOSE i \in 1..Len(q) : q[i].cmd.kind = kind ELSE 0

\* heartbeat_system runs connected and its send step runs: a tick that transmits
TransmittingTick ==
    \E delta \in FrameDeltasMs :
        /\ heartbeat_system(delta)
        /\ serial_connected
        /\ tick_sends(timer_tick(timer, delta).just_finished)

\* The tick itself re-enqueues the entry of this kind before it dequeues
ReEnqueuedByTick(kind) == kind = "Config" /\ config_enqueued

\* C33: bounded wait in the queue.  The queue holds at most one entry per kind,
\* hence at most 12.  A tick that transmits moves every entry that is not
\* re-enqueued at least one place towards the front, and hands the entry to the
\* worker when it leaves the queue; any other step leaves an entry in the queue
\* no further from the front than it was, unless it is (re-)enqueued, which
\* puts it at the tail.  An entry with n entries ahead of it is therefore
\* transmitted by the (n + 1)-th transmitting tick at the latest.
C33_BoundedWaitInQueue ==
    /\ [](Len(queue) <= Cardinality(CommandKinds) /\ Cardinality(CommandKinds) = 12)
    /\ [][\A kind \in CommandKinds :
            LET pos == PosOfKind(queue, kind)
                now == PosOfKind(queue', kind)
            IN  pos > 0 =>
                    IF TransmittingTick
                    THEN IF ReEnqueuedByTick(kind)
                         THEN now \in {0, Len(queue')}
                         ELSE /\ now <= pos - 1
                              /\ (now = 0) = (pos = 1 \/ (pos = 2 /\ ReEnqueuedByTick(queue[1].cmd.kind)))
                              /\ now = 0 =>
                                    channel' = Append(channel,
                                        Send(queue[pos].address, to_ascii(queue[pos].cmd)))
                    ELSE now \in (1..pos) \cup ({Len(queue')} \ {0})]_vars

\* A transmitting tick has just handed the head of a queue of three entries to
\* the worker and the two entries behind it have moved up
C33_Witness ==
    /\ last.op = "heartbeat_system"
    /\ last.flag
    /\ serial_connected
    /\ uart_sender = "Some"
    /\ parse_u16(send_address) # ParseErr
    /\ channel # <<>>
    /\ Len(queue) = 2
    /\ ~HasKind(queue, "Config")

\* The AT+SEND lines written on the current connection, in order
SentOnConnection ==
    SubSeq(port_written, Len(InitCommands) + 1, Len(port_written))

\* The lines of the commands of this scenario
ConfigLine == SendLine(parse_u16(send_address), to_ascii(Config(persistent_settings)))
HeartBeatLine == SendLine(parse_u16(send_address), to_ascii(HeartBeat(controller_state)))
EmergencyStopLine == SendLine(GamepadAddress, to_ascii(Bare("EmergencyStop")))

\* The connect call returns successfully in this step
ConnectSucceeds ==
    /\ ~serial_connected
    /\ serial_connected'
    /\ parse_u16(send_address) # ParseErr

\* C34: a successful connect with a parsable address enqueues a Config command
\* built from the persisted settings behind the entries already queued, and
\* neither disconnect nor connect removes an entry of another kind; on every
\* connection the Config line is written before the first Heartbeat line, and
\* an emergency stop enqueued before the connect is written before the Config.
C34_ConfigBeforeFirstHeartbeat ==
    /\ [](\A k \in 1..Len(SentOnConnection) :
            /\ SentOnConnection[k] = HeartBeatLine =>
                   \E j \in 1..(k - 1) : SentOnConnection[j] = ConfigLine
            /\ SentOnConnection[k] = EmergencyStopLine =>
                   \A j \in 1..(k - 1) : SentOnConnection[j] # ConfigLine)
    /\ [][/\ ConnectSucceeds =>
                queue' = Append(SelectSeq(queue, LAMBDA e : e.cmd.kind # "Config"),
                                Entry(parse_u16(send_address),
                                      Config(persistent_settings)))
          /\ (serial_connected /\ ~serial_connected') => queue' = queue]_vars

\* The second connection has written the emergency stop pressed while
\* disconnected, then the Config, then a Heartbeat
C34_Witness ==
    /\ Len(workers) = 2
    /\ SentOnConnection = <<EmergencyStopLine, ConfigLine, HeartBeatLine>>

\* The longest line: a Config command
LongestLine == get_ascii(Config(PersistentSettingsDefault))

\* The worker takes a Send request off its channel in this step
WorkerTakesSend ==
    /\ uart_loop_try_recv(1, TRUE)
    /\ channel # <<>>
    /\ Head(channel) # Disconnect

\* C35: every line the codec produces fits the outbound cap: the longest is
\* the Config line of 3 + 2*76 = 155 characters, which is at most 240, every
\* request the scheduler hands to the worker carries at most that many, and the
\* worker writes the AT+SEND line of every such request instead of rejecting
\* it as oversized.
C35_CodecLinesFitCap ==
    /\ [](/\ Len(LongestLine) = 3 + 2 * DocumentedRecordSize("Config")
          /\ Len(LongestLine) = 155
          /\ Len(LongestLine) <= MaxPayload
          /\ \A cmd \in CodecCommands : Len(get_ascii(cmd)) <= Len(LongestLine)
          /\ \A k \in 1..Len(channel) : Len(channel[k].data) <= Len(LongestLine))
    /\ [][WorkerTakesSend =>
            /\ ~payload_too_long(Head(channel).data)
            /\ port_written' =
                   Append(port_written,
                          SendLine(Head(channel).address, Head(channel).data))
            /\ workers'[1].pc = "wait"]_vars

\* The worker has written the AT+SEND line of a Config command, the longest
\* line, and waits for its acknowledgement
C35_Witness ==
    /\ workers # <<>>
    /\ workers[1].pc = "wait"
    /\ port_written[Len(port_written)] = SendLine(0, LongestLine)

\* Thread t is at a lock() of a mutex that is held
WaitsForLock(t) ==
    /\ running[t] # <<>>
    /\ Head(running[t]).op = "lock"
    /\ \E u \in Threads : Head(running[t]).what \in held[u]

\* Thread t takes the mutex in this step
Acquires(t, mutex) == mutex \notin held[t] /\ mutex \in held'[t]

\* C36: the two shared mutexes cannot deadlock: a thread that waits for a
\* mutex waits for one the other thread holds, and that thread is not waiting;
\* both are held at once only by the application thread, which takes the
\* telemetry/log mutex first and the command-queue mutex second; no step takes
\* the telemetry/log mutex with the command-queue mutex held, and the worker
\* never takes the command-queue mutex.
C36_NoLockOrderDeadlock ==
    /\ [](/\ \A t \in Threads :
                WaitsForLock(t) =>
                    \E u \in Threads \ {t} :
                        /\ Head(running[t]).what \in held[u]
                        /\ ~WaitsForLock(u)
          /\ "queue" \notin held["worker"]
          /\ \A t, u \in Threads : t # u => held[t] \cap held[u] = {})
    /\ [][\A t \in Threads :
            /\ Acquires(t, "data_buffer") => held[t] = {}
            /\ Acquires(t, "queue") => (t = "app" /\ held[t] \subseteq {"data_buffer"})]_vars

\* The application thread holds both mutexes in the config-request step of
\* heartbeat_system while the worker waits for the telemetry/log mutex in
\* process_line
C36_Witness ==
    /\ held["app"] = {"data_buffer", "queue"}
    /\ running["worker"] # <<>>
    /\ Head(running["worker"]) = LockStep("data_buffer")
    /\ WaitsForLock("worker")

\* AppState::start_uart_thread is called with serial_connected already true
ConnectWhileConnected ==
    \E open_ok \in BOOLEAN : serial_connected /\ connect_open(open_ok)

\* C37: connect is idempotent while connected: a connect request issued when
\* serial_connected is already true opens no port, runs no handshake, spawns no
\* worker, enqueues nothing and leaves the control-channel sender, and what is
\* in the channel, in place.
C37_ConnectIdempotent ==
    [][ConnectWhileConnected =>
          /\ UNCHANGED <<port_written, init_pc, init_step, init_outcomes,
                         wait_buffer, wait_elapsed>>
          /\ UNCHANGED workers
          /\ UNCHANGED queue
          /\ UNCHANGED <<uart_sender, channel, serial_connected>>]_vars

\* The connect call has just returned on a link that was connected, with a
\* request of the scheduler still in the channel
C37_Witness ==
    /\ serial_connected
    /\ uart_sender = "Some"
    /\ last = Last("start_uart_thread", "-", TRUE, NoReturn)
    /\ channel # <<>>
    /\ Len(workers) = 1
    /\ queue # <<>>

====
